---- MODULE Spec2Model ----
(***************************************************************************)
(* 13F holdings pipeline of src/app.py: the Locator (fetch_filings), the   *)
(* per-filing task (fetch_filing_details with the two parsers), the gather *)
(* in get_holdings, and the analytics engine analyze_holdings called by    *)
(* get_data.                                                               *)
(*                                                                         *)
(* Representation.                                                         *)
(*  - Python floats are modelled by exact integers. Every value reaching   *)
(*    analyze_holdings is float(text) * 1000 of a whole number, so the     *)
(*    division value / 1000 is exact; float rounding is not modelled.      *)
(*  - None / NaN of an optional column is the empty sequence Absent, a     *)
(*    present number v is Some(v) = <<v>>.                                 *)
(*  - A quarter label "YYYYQn" is the integer YYYY * 10 + n, whose order   *)
(*    is the lexicographic order of the labels ("2024Q1" is 20241).        *)
(*  - Issuer names are strings; their lexicographic order (the order       *)
(*    pandas sorts group keys in) is their position in IssuerNames.        *)
(*  - A date is [year, month]; the day never matters to the quarter.       *)
(*  - The copied fields cik and filing_date of a holding are not read by   *)
(*    any code modelled here and are left out of the holding record.       *)
(*                                                                         *)
(* Specifications. Spec, SpecAgg and SpecTop run the request on documents  *)
(* that are retrieved at the first attempt; SpecFix applies the unit       *)
(* correction on its own; SpecLocate is the Locator on the upstream        *)
(* answers; SpecNet runs the request request by request, every request     *)
(* answered by a success, a non-success status or a transport error;       *)
(* SpecIEEE is analyze_holdings on values that may be infinite or NaN;     *)
(* SpecText is parse_text_info_table on legacy tables of varying headers.  *)
(***************************************************************************)
EXTENDS Integers, Sequences, FiniteSets, TLC

VARIABLES pc, filings, results, df, analysis, fx, net

vars == <<pc, filings, results, df, analysis, fx, net>>

-----------------------------------------------------------------------------
(* Generic helpers used by the translations below.                         *)

Absent == <<>>

Some(v) == <<v>>

Min2(a, b) == IF a <= b THEN a ELSE b

(* The difference kept signed: np.abs left out.                            *)
NoAbs(x) == x

Abs(x) == IF x < 0 THEN -x ELSE x

(* The aggregator "first" in place of "sum".                               *)
FirstOf(s) == IF s = <<>> THEN 0 ELSE Head(s)

RECURSIVE SumSeq(_)
SumSeq(s) == IF s = <<>> THEN 0 ELSE Head(s) + SumSeq(Tail(s))

RECURSIVE Flatten(_)
Flatten(ss) == IF ss = <<>> THEN <<>> ELSE Head(ss) \o Flatten(Tail(ss))

RECURSIVE SortedInts(_)
SortedInts(S) ==
  IF S = {} THEN <<>>
  ELSE LET m == CHOOSE x \in S : \A y \in S : x <= y
       IN  <<m>> \o SortedInts(S \ {m})

Reverse(s) == [i \in 1..Len(s) |-> s[Len(s) + 1 - i]]

Range(s) == {s[i] : i \in DOMAIN s}

Column(frame, col) == [i \in DOMAIN frame |-> frame[i][col]]

-----------------------------------------------------------------------------
(* Issuer names and text conversions.                                      *)

IssuerNames == <<"ALPHA", "BETA", "CHI", "DELTA", "EPSILON", "GAMMA">>

NameRank(name) ==
  IF name = "" THEN 0
  ELSE CHOOSE i \in DOMAIN IssuerNames : IssuerNames[i] = name

Numerals ==
  ("0" :> 0) @@ ("1" :> 1) @@ ("2" :> 2) @@ ("3" :> 3) @@ ("10" :> 10) @@
  ("500" :> 500) @@ ("1000" :> 1000) @@ ("2000" :> 2000) @@
  ("100000" :> 100000)

is_numeric(text) == text \in DOMAIN Numerals

float(text) == Numerals[text]

upper(word) ==
  CASE word = "Name" -> "NAME"
    [] word = "name" -> "NAME"
    [] word = "of" -> "OF"
    [] word = "Of" -> "OF"
    [] word = "Issuer" -> "ISSUER"
    [] word = "issuer" -> "ISSUER"
    [] OTHER -> word

title(name) ==
  CASE name = "ACME CAPITAL" -> "Acme Capital"
    [] name = "ZENITH PARTNERS" -> "Zenith Partners"
    [] name = "Unknown" -> "Unknown"
    [] OTHER -> name

Quarter(period) == period.year * 10 + ((period.month - 1) \div 3 + 1)

-----------------------------------------------------------------------------
(* Holdings parsers.                                                       *)
(* A structured information table is the sequence of its infoTable         *)
(* elements; each field of an element is the list of text nodes the xpath  *)
(* query returns for it (empty when the element or its text is missing).   *)
(* A legacy text table is its sequence of lines, a line the sequence of    *)
(* its whitespace-separated tokens (a blank line has none).                *)

xml_table_raises(table) ==
  \/ table.nameOfIssuer = <<>>
  \/ table.cusip = <<>>
  \/ table.value = <<>>
  \/ table.sshPrnamt = <<>>
  \/ ~is_numeric(table.value[1])
  \/ ~is_numeric(table.sshPrnamt[1])

(* The reported value taken as is, without the scaling by 1000.            *)
xml_holding_unscaled(table, accession_number, period_of_report, filing_manager_name) ==
  [accession_number |-> accession_number,
   period_of_report |-> period_of_report,
   filing_manager_name |-> filing_manager_name,
   name_of_issuer |-> table.nameOfIssuer[1],
   cusip |-> table.cusip[1],
   value |-> float(table.value[1]),
   sshprnamt |-> float(table.sshPrnamt[1])]

xml_holding(table, accession_number, period_of_report, filing_manager_name) ==
  [accession_number |-> accession_number,
   period_of_report |-> period_of_report,
   filing_manager_name |-> filing_manager_name,
   name_of_issuer |-> table.nameOfIssuer[1],
   cusip |-> table.cusip[1],
   value |-> float(table.value[1]) * 1000,
   sshprnamt |-> float(table.sshPrnamt[1])]

(* The holdings appended before the failing element kept.                  *)
parse_info_table_xml_partial(info_tables, accession_number, period_of_report, filing_manager_name) ==
  LET failing == {i \in DOMAIN info_tables : xml_table_raises(info_tables[i])}
      kept == IF failing = {} THEN Len(info_tables)
              ELSE (CHOOSE i \in failing : \A j \in failing : i <= j) - 1
  IN  [i \in 1..kept |->
         xml_holding(info_tables[i], accession_number, period_of_report,
                     filing_manager_name)]

parse_info_table_xml(info_tables, accession_number, period_of_report, filing_manager_name) ==
  IF \E i \in DOMAIN info_tables : xml_table_raises(info_tables[i])
  THEN <<>>
  ELSE [i \in DOMAIN info_tables |->
          xml_holding(info_tables[i], accession_number, period_of_report,
                      filing_manager_name)]

is_header_line(line) ==
  \E j \in 1..(Len(line) - 2) :
    /\ upper(line[j]) = "NAME"
    /\ upper(line[j + 1]) = "OF"
    /\ upper(line[j + 2]) = "ISSUER"

header_index(lines) ==
  IF \E i \in DOMAIN lines : is_header_line(lines[i])
  THEN CHOOSE i \in DOMAIN lines :
         /\ is_header_line(lines[i])
         /\ \A k \in 1..(i - 1) : ~is_header_line(lines[k])
  ELSE 0

dict_get(headers, fields, key, default) ==
  LET n == Min2(Len(headers), Len(fields))
      hits == {j \in 1..n : headers[j] = key}
  IN  IF hits = {} THEN default
      ELSE fields[CHOOSE j \in hits : \A k \in hits : k <= j]

(* Every non-blank line kept: the token count not compared.                *)
data_lines_unfiltered(lines) ==
  LET h == header_index(lines)
      rest == SubSeq(lines, h + 2, Len(lines))
  IN  SelectSeq(rest, LAMBDA line : line # <<>>)

data_lines(lines) ==
  LET h == header_index(lines)
      headers == lines[h]
      rest == SubSeq(lines, h + 2, Len(lines))
  IN  SelectSeq(rest, LAMBDA line : line # <<>> /\ Len(line) >= Len(headers))

text_row_raises(headers, fields) ==
  \/ ~is_numeric(dict_get(headers, fields, "VALUE", "0"))
  \/ ~is_numeric(dict_get(headers, fields, "SHARES", "0"))

parse_text_raises(lines) ==
  /\ header_index(lines) # 0
  /\ \E i \in DOMAIN data_lines(lines) :
       text_row_raises(lines[header_index(lines)], data_lines(lines)[i])

(* The issuer name read from the first token of the row, whatever the      *)
(* header says.                                                            *)
text_holding_first_token(headers, fields, accession_number, period_of_report, filing_manager_name) ==
  [accession_number |-> accession_number,
   period_of_report |-> period_of_report,
   filing_manager_name |-> filing_manager_name,
   name_of_issuer |-> fields[1],
   cusip |-> dict_get(headers, fields, "CUSIP", ""),
   value |-> float(dict_get(headers, fields, "VALUE", "0")) * 1000,
   sshprnamt |-> float(dict_get(headers, fields, "SHARES", "0"))]

text_holding(headers, fields, accession_number, period_of_report, filing_manager_name) ==
  [accession_number |-> accession_number,
   period_of_report |-> period_of_report,
   filing_manager_name |-> filing_manager_name,
   name_of_issuer |-> dict_get(headers, fields, "NAME", ""),
   cusip |-> dict_get(headers, fields, "CUSIP", ""),
   value |-> float(dict_get(headers, fields, "VALUE", "0")) * 1000,
   sshprnamt |-> float(dict_get(headers, fields, "SHARES", "0"))]

parse_text_info_table(lines, accession_number, period_of_report, filing_manager_name) ==
  IF header_index(lines) = 0 THEN <<>>
  ELSE LET headers == lines[header_index(lines)]
           rows == data_lines(lines)
       IN  [i \in DOMAIN rows |->
              text_holding(headers, rows[i], accession_number,
                           period_of_report, filing_manager_name)]

(* Lines 83-106: the manager name scanned from the preamble, then the      *)
(* first INFORMATION TABLE section, parsed as markup when it embeds an     *)
(* <XML> block and as legacy text otherwise; no section, no holdings.      *)
(* A document without an information table treated as an error.           *)
details_raise_without_table(content) ==
  \/ content.info_table = "none"
  \/ content.info_table = "text" /\ parse_text_raises(content.lines)

details_raise(content) ==
  content.info_table = "text" /\ parse_text_raises(content.lines)

parse_content(content, filing) ==
  CASE content.info_table = "xml" ->
         parse_info_table_xml(content.tables, filing.accession_number,
                              filing.period_of_report, content.manager_name)
    [] content.info_table = "text" ->
         parse_text_info_table(content.lines, filing.accession_number,
                               filing.period_of_report, content.manager_name)
    [] OTHER -> <<>>

-----------------------------------------------------------------------------
(* Normalization and analytics engine: analyze_holdings.                   *)

AnchorQuarter == 20241

MaxQuarters == 4

TopN == 5

(* (value * 1000 / sshprnamt) > 1000 over the reals, for sshprnamt # 0:    *)
(* the division is cleared by multiplying both sides by sshprnamt, which   *)
(* turns the comparison round when sshprnamt is negative.                  *)
ratio_exceeds(value, sshprnamt) ==
  \/ sshprnamt > 0 /\ value * 1000 > 1000 * sshprnamt
  \/ sshprnamt < 0 /\ value * 1000 < 1000 * sshprnamt

(* The test for a zero share count left out.                               *)
value_fixed_nonzero_only(value, sshprnamt) ==
  IF ratio_exceeds(value, sshprnamt) THEN value \div 1000 ELSE value

(* The threshold compared with >= in place of >.                           *)
value_fixed_at_least(value, sshprnamt) ==
  IF \/ sshprnamt = 0
     \/ ratio_exceeds(value, sshprnamt)
     \/ (sshprnamt # 0 /\ value * 1000 = 1000 * sshprnamt)
  THEN value \div 1000
  ELSE value

value_fixed(value, sshprnamt) ==
  IF sshprnamt = 0 \/ ratio_exceeds(value, sshprnamt)
  THEN value \div 1000
  ELSE value

(* df after lines 177-184: the columns value_fixed and quarter added.      *)
normalize(data) ==
  [i \in DOMAIN data |->
     data[i] @@ [value_fixed |-> value_fixed(data[i].value, data[i].sshprnamt),
                 quarter |-> Quarter(data[i].period_of_report)]]

all_quarters(frame) == SortedInts(Range(Column(frame, "quarter")))

RECURSIVE select_quarters(_, _)
select_quarters(target, recent) ==
  IF recent = <<>> THEN target
  ELSE LET q == Head(recent)
       IN  IF q \notin Range(target) /\ Len(target) < MaxQuarters
           THEN select_quarters(Append(target, q), Tail(recent))
           ELSE select_quarters(target, Tail(recent))

(* The selection started from the empty list, without the anchor.         *)
target_quarters_recent_only(frame) ==
  SortedInts(Range(select_quarters(<<>>, Reverse(all_quarters(frame)))))

(* The anchor put on the list only when the data holds it.                 *)
target_quarters_anchor_if_present(frame) ==
  LET start == IF AnchorQuarter \in Range(all_quarters(frame))
               THEN <<AnchorQuarter>> ELSE <<>>
  IN  SortedInts(Range(select_quarters(start, Reverse(all_quarters(frame)))))

target_quarters(frame) ==
  SortedInts(Range(select_quarters(<<AnchorQuarter>>,
                                   Reverse(all_quarters(frame)))))

filter_quarters(frame) ==
  LET target == Range(target_quarters(frame))
  IN  SelectSeq(frame, LAMBDA row : row.quarter \in target)

latest_quarter(frame) ==
  CHOOSE q \in Range(Column(frame, "quarter")) :
    \A r \in Range(Column(frame, "quarter")) : r <= q

name_of_rank(rank) == IF rank = 0 THEN "" ELSE IssuerNames[rank]

(* groupby("name_of_issuer").agg(sum): one row per issuer, rows in the     *)
(* sorted order of the issuer names.                                       *)
groupby_issuer(frame) ==
  LET ranks == SortedInts({NameRank(frame[i].name_of_issuer) : i \in DOMAIN frame})
  IN  [k \in DOMAIN ranks |->
         LET rows == SelectSeq(frame, LAMBDA row :
                                 row.name_of_issuer = name_of_rank(ranks[k]))
         IN  [name_of_issuer |-> name_of_rank(ranks[k]),
              value_fixed |-> SumSeq(Column(rows, "value_fixed")),
              sshprnamt |-> SumSeq(Column(rows, "sshprnamt"))]]

(* Stable descending sort on value_fixed: a row goes after every row       *)
(* already placed whose value_fixed is at least its own.                   *)
(* A row placed before the rows of equal value_fixed: ties reversed.       *)
RECURSIVE insert_desc_unstable(_, _)
insert_desc_unstable(sorted, row) ==
  IF sorted = <<>> THEN <<row>>
  ELSE IF Head(sorted).value_fixed > row.value_fixed
       THEN <<Head(sorted)>> \o insert_desc_unstable(Tail(sorted), row)
       ELSE <<row>> \o sorted

RECURSIVE insert_desc(_, _)
insert_desc(sorted, row) ==
  IF sorted = <<>> THEN <<row>>
  ELSE IF Head(sorted).value_fixed >= row.value_fixed
       THEN <<Head(sorted)>> \o insert_desc(Tail(sorted), row)
       ELSE <<row>> \o sorted

RECURSIVE sort_desc(_)
sort_desc(frame) ==
  IF frame = <<>> THEN <<>>
  ELSE insert_desc(sort_desc(SubSeq(frame, 1, Len(frame) - 1)),
                   frame[Len(frame)])

nlargest(frame, n) == SubSeq(sort_desc(frame), 1, Min2(n, Len(frame)))

top_holdings(frame) ==
  LET latest == latest_quarter(frame)
  IN  nlargest(groupby_issuer(SelectSeq(frame, LAMBDA row :
                                          row.quarter = latest)),
               TopN)

key_less(a, b) == a[1] < b[1] \/ (a[1] = b[1] /\ a[2] < b[2])

RECURSIVE sorted_keys(_)
sorted_keys(S) ==
  IF S = {} THEN <<>>
  ELSE LET m == CHOOSE x \in S : \A y \in S \ {x} : key_less(x, y)
       IN  <<m>> \o sorted_keys(S \ {m})

(* groupby(..., sort=False): the keys in order of first appearance.        *)
group_keys_unsorted(frame) ==
  LET keys == [i \in DOMAIN frame |->
                 <<NameRank(frame[i].name_of_issuer), frame[i].quarter>>]
      firsts == SortedInts({i \in DOMAIN frame :
                              \A j \in 1..(i - 1) : keys[j] # keys[i]})
  IN  [n \in DOMAIN firsts |-> keys[firsts[n]]]

group_keys(frame) ==
  sorted_keys({<<NameRank(frame[i].name_of_issuer), frame[i].quarter>> :
                 i \in DOMAIN frame})

(* groupby(["name_of_issuer", "quarter"]).agg(sum, sum, first): one row    *)
(* per key, rows in the sorted order of the keys.                          *)
groupby_issuer_quarter(frame) ==
  LET keys == group_keys(frame)
  IN  [k \in DOMAIN keys |->
         LET rows == SelectSeq(frame, LAMBDA row :
                                 /\ row.name_of_issuer = name_of_rank(keys[k][1])
                                 /\ row.quarter = keys[k][2])
         IN  [name_of_issuer |-> name_of_rank(keys[k][1]),
              quarter |-> keys[k][2],
              value_fixed |-> SumSeq(Column(rows, "value_fixed")),
              sshprnamt |-> SumSeq(Column(rows, "sshprnamt")),
              accession_number |-> rows[1].accession_number]]

(* groupby("name_of_issuer")[col].shift(1): the value of the row before,   *)
(* when that row belongs to the same issuer.                               *)
(* shift(1) on the whole frame, not per issuer.                            *)
shift_ungrouped(grouped, k, col) ==
  IF k > 1 THEN Some(grouped[k - 1][col]) ELSE Absent

shift(grouped, k, col) ==
  IF k > 1 /\ grouped[k - 1].name_of_issuer = grouped[k].name_of_issuer
  THEN Some(grouped[k - 1][col])
  ELSE Absent

fillna(opt, default) == IF opt = Absent THEN default ELSE opt[1]

changes(frame) ==
  LET grouped == groupby_issuer_quarter(frame)
  IN  [k \in DOMAIN grouped |->
         LET prev_value == shift(grouped, k, "value_fixed")
             prev_sshprnamt == shift(grouped, k, "sshprnamt")
         IN  [name_of_issuer |-> grouped[k].name_of_issuer,
              quarter |-> grouped[k].quarter,
              value_fixed |-> grouped[k].value_fixed,
              sshprnamt |-> grouped[k].sshprnamt,
              prev_value |-> prev_value,
              value_change |-> Abs(grouped[k].value_fixed - fillna(prev_value, 0)),
              prev_sshprnamt |-> prev_sshprnamt,
              sshprnamt_change |->
                Abs(grouped[k].sshprnamt - fillna(prev_sshprnamt, 0))]]

last_two_quarters(rows) ==
  LET unique_quarters == SortedInts(Range(Column(rows, "quarter")))
  IN  IF Len(unique_quarters) >= 2
      THEN Range(SubSeq(unique_quarters, Len(unique_quarters) - 1,
                        Len(unique_quarters)))
      ELSE Range(unique_quarters)

(* The recency window left out of the flag.                                *)
status_unwindowed(prev_value, quarter, last_two) ==
  IF prev_value = Absent THEN "New Position" ELSE ""

status(prev_value, quarter, last_two) ==
  IF prev_value = Absent /\ quarter \in last_two THEN "New Position" ELSE ""

all_holdings(frame) ==
  LET grouped == groupby_issuer_quarter(frame)
      last_two == last_two_quarters(grouped)
  IN  [k \in DOMAIN grouped |->
         LET prev_value == shift(grouped, k, "value_fixed")
             prev_sshprnamt == shift(grouped, k, "sshprnamt")
         IN  [name_of_issuer |-> grouped[k].name_of_issuer,
              quarter |-> grouped[k].quarter,
              value_fixed |-> grouped[k].value_fixed,
              sshprnamt |-> grouped[k].sshprnamt,
              accession_number |-> grouped[k].accession_number,
              prev_value |-> prev_value,
              value_change |->
                IF prev_value = Absent THEN Absent
                ELSE Some(grouped[k].value_fixed - prev_value[1]),
              prev_sshprnamt |-> prev_sshprnamt,
              sshprnamt_change |->
                IF prev_sshprnamt = Absent THEN Absent
                ELSE Some(grouped[k].sshprnamt - prev_sshprnamt[1]),
              status |-> status(prev_value, grouped[k].quarter, last_two)]]

EmptyResult ==
  [top_holdings |-> <<>>, changes |-> <<>>, all_holdings |-> <<>>,
   manager_name |-> "Unknown"]

analyze_holdings(data) ==
  IF data = <<>> THEN EmptyResult
  ELSE LET frame == filter_quarters(normalize(data))
       IN  [top_holdings |-> top_holdings(frame),
            changes |-> changes(frame),
            all_holdings |-> all_holdings(frame),
            manager_name |->
              IF frame # <<>> THEN title(frame[1].filing_manager_name)
              ELSE "Unknown"]

-----------------------------------------------------------------------------
(* Upstream universes: what the Locator and the document store may return. *)

MaxFilings == 5

MaxAggFilings == 3

Period(year, month) == [year |-> year, month |-> month]

Periods ==
  <<Period(2023, 12), Period(2024, 3), Period(2024, 6), Period(2024, 9),
    Period(2024, 12), Period(2025, 3)>>

AggPeriods == <<Period(2024, 3), Period(2024, 6), Period(2024, 9)>>

TopPeriods == <<Period(2024, 9), Period(2024, 12)>>

FilingList(periods, idx) ==
  [k \in DOMAIN idx |->
     [accession_number |-> k, period_of_report |-> periods[idx[k]]]]

(* Index lists in strictly decreasing order: a recency-ordered feed.       *)
RECURSIVE RecentFirst(_, _)
RecentFirst(newest, n) ==
  IF n = 0 THEN {<<>>}
  ELSE {<<>>} \cup
       UNION {{<<i>> \o t : t \in RecentFirst(i - 1, n - 1)} : i \in 1..newest}

AnyOrder(m, n) == UNION {[1..k -> 1..m] : k \in 0..n}

RECURSIVE InjectiveSeqs(_)
InjectiveSeqs(S) ==
  {<<>>} \cup UNION {{<<x>> \o t : t \in InjectiveSeqs(S \ {x})} : x \in S}

Table(name, cusip, value, shares) ==
  [nameOfIssuer |-> <<name>>, cusip |-> <<cusip>>, value |-> <<value>>,
   sshPrnamt |-> <<shares>>]

XmlContent(manager_name, tables) ==
  [manager_name |-> manager_name, info_table |-> "xml", tables |-> tables,
   lines |-> <<>>]

TextContent(manager_name, lines) ==
  [manager_name |-> manager_name, info_table |-> "text", tables |-> <<>>,
   lines |-> lines]

NoTableContent ==
  [manager_name |-> "Unknown", info_table |-> "none", tables |-> <<>>,
   lines |-> <<>>]

PipelineContents ==
  {XmlContent("ACME CAPITAL", <<Table("ALPHA", "00000A101", "1000", "10")>>),
   TextContent("ACME CAPITAL",
               << <<"NAME", "OF", "ISSUER", "CUSIP", "VALUE", "SHARES">>,
                  <<"------">>,
                  <<"BETA", "CORP", "COM", "00000B102", "500", "100000">>,
                  <<>>,
                  <<"BETA", "CORP", "00000B102", "500", "100000">> >>),
   XmlContent("ACME CAPITAL", <<Table("GAMMA", "00000G103", "2", "0"),
                                Table("BETA", "00000B102", "1", "1000")>>),
   NoTableContent}

AggContents ==
  {XmlContent("ACME CAPITAL", <<Table("ALPHA", "00000A101", "1", "1000")>>),
   XmlContent("ACME CAPITAL", <<Table("ALPHA", "00000A209", "3", "1000")>>),
   XmlContent("ACME CAPITAL", <<Table("BETA", "00000B102", "2", "0")>>)}

TopValues == <<"2", "1", "2", "1", "2", "1">>

TopContents ==
  {XmlContent("ACME CAPITAL",
              [k \in DOMAIN order |->
                 Table(IssuerNames[order[k]], "000000000", TopValues[order[k]],
                       "0")]) :
     order \in InjectiveSeqs(1..(TopN + 1))}

ExtraContents ==
  {XmlContent("ACME CAPITAL", <<Table("GAMMA", "00000G200", "2", "0")>>),
   XmlContent("ACME CAPITAL", <<Table("DELTA", "00000D200", "3", "0")>>)}

PipelineFilings ==
  {FilingList(Periods, idx) : idx \in RecentFirst(Len(Periods), MaxFilings)}

AggFilings ==
  {FilingList(AggPeriods, idx) : idx \in AnyOrder(Len(AggPeriods), MaxAggFilings)}

TopFilings ==
  {FilingList(TopPeriods, idx) : idx \in {<<2>>, <<2, 2, 1>>}}

(* The documents the store may return for the filing at each position of   *)
(* the Locator's list.                                                     *)
PipelineContentsFor == [i \in 1..MaxFilings |-> PipelineContents]

AggContentsFor == [i \in 1..MaxFilings |-> AggContents]

TopContentsFor ==
  [i \in 1..MaxFilings |-> IF i = 1 THEN TopContents ELSE ExtraContents]

-----------------------------------------------------------------------------
(* The request: get_data -> get_holdings -> fetch_filings, one             *)
(* fetch_filing_details task per filing under asyncio.gather, then the     *)
(* flattening of the result slots, the 404 test and analyze_holdings.      *)

Pending == [done |-> FALSE, holdings |-> <<>>]

Slot(holdings) == [done |-> TRUE, holdings |-> holdings]

NoFix == [value |-> 0, sshprnamt |-> 0, applied |-> <<>>]

(* No request issued yet: the upstream response of the Locator and the     *)
(* per-filing request state of the tasks, and the order in which the       *)
(* tasks have returned so far.                                             *)
NoNet == [feed |-> [kind |-> "none", status |-> 0, body |-> <<>>], tasks |-> <<>>, order |-> <<>>]

Init ==
  /\ pc = "start"
  /\ filings = <<>>
  /\ results = <<>>
  /\ df = <<>>
  /\ analysis = EmptyResult
  /\ fx = NoFix
  /\ net = NoNet

fetch_filings(universe) ==
  /\ pc = "start"
  /\ \E found \in universe :
       /\ filings' = found
       /\ results' = [i \in DOMAIN found |-> Pending]
  /\ pc' = "gather"
  /\ UNCHANGED <<df, analysis, fx, net>>

fetch_filing_details(contents_for) ==
  /\ pc = "gather"
  /\ \E i \in DOMAIN filings :
       /\ ~results[i].done
       /\ \E content \in contents_for[i] :
            IF details_raise(content)
            THEN /\ pc' = "raised"
                 /\ UNCHANGED results
            ELSE /\ results' =
                      [results EXCEPT ![i] = Slot(parse_content(content, filings[i]))]
                 /\ pc' = pc
  /\ UNCHANGED <<filings, df, analysis, fx, net>>

(* The slots read in the order in which the tasks returned.                *)
holdings_in_completion_order(slots) ==
  Flatten([k \in DOMAIN net.order |-> slots[net.order[k]].holdings])

(* Lines 169-170: gather returns the results in the order of the tasks.    *)
holdings_of(slots) == Flatten([i \in DOMAIN slots |-> slots[i].holdings])

(* The analysis started without awaiting every task of the gather.         *)
get_data_early ==
  /\ pc = "gather"
  /\ LET holdings == holdings_of(results)
     IN  IF holdings = <<>>
         THEN /\ pc' = "not_found"
              /\ UNCHANGED <<df, analysis>>
         ELSE /\ pc' = "done"
              /\ df' = normalize(holdings)
              /\ analysis' = analyze_holdings(holdings)
  /\ UNCHANGED <<filings, results, fx, net>>

(* analyze_holdings called on whatever get_holdings returned: the test     *)
(* for an empty list left out.                                              *)
get_data_unguarded ==
  /\ pc = "gather"
  /\ \A i \in DOMAIN results : results[i].done
  /\ pc' = "done"
  /\ df' = normalize(holdings_of(results))
  /\ analysis' = analyze_holdings(holdings_of(results))
  /\ UNCHANGED <<filings, results, fx, net>>

get_data ==
  /\ pc = "gather"
  /\ \A i \in DOMAIN results : results[i].done
  /\ LET holdings == holdings_of(results)
     IN  IF holdings = <<>>
         THEN /\ pc' = "not_found"
              /\ UNCHANGED <<df, analysis>>
         ELSE /\ pc' = "done"
              /\ df' = normalize(holdings)
              /\ analysis' = analyze_holdings(holdings)
  /\ UNCHANGED <<filings, results, fx, net>>

Next ==
  \/ fetch_filings(PipelineFilings)
  \/ fetch_filing_details(PipelineContentsFor)
  \/ get_data

Spec == Init /\ [][Next]_vars

NextAgg ==
  \/ fetch_filings(AggFilings)
  \/ fetch_filing_details(AggContentsFor)
  \/ get_data

SpecAgg == Init /\ [][NextAgg]_vars

NextTop ==
  \/ fetch_filings(TopFilings)
  \/ fetch_filing_details(TopContentsFor)
  \/ get_data

SpecTop == Init /\ [][NextTop]_vars

-----------------------------------------------------------------------------
(* The unit-correction heuristic on its own: lines 177-181 applied to a    *)
(* (value, sshprnamt) pair, then again to the corrected value paired with  *)
(* the same sshprnamt. The values are whole multiples of 1,000,000, so     *)
(* both divisions by 1000 are exact.                                       *)

FixValues == {0, 1000000, 2000000}

FixShares ==
  {0, 1, 10, 500, 999, 1000, 1001, 1999, 2000, 2001, 999999, 1000000,
   1000001, 2000000}

InitFix ==
  /\ pc = "fix"
  /\ filings = <<>>
  /\ results = <<>>
  /\ df = <<>>
  /\ analysis = EmptyResult
  /\ net = NoNet
  /\ \E v \in FixValues, s \in FixShares :
       fx = [value |-> v, sshprnamt |-> s, applied |-> <<>>]

apply_value_fixed ==
  /\ pc = "fix"
  /\ Len(fx.applied) < 2
  /\ LET current == IF fx.applied = <<>> THEN fx.value
                    ELSE fx.applied[Len(fx.applied)]
     IN  fx' = [fx EXCEPT !.applied =
                  Append(@, value_fixed(current, fx.sshprnamt))]
  /\ UNCHANGED <<pc, filings, results, df, analysis, net>>

NextFix == apply_value_fixed

SpecFix == InitFix /\ [][NextFix]_vars

-----------------------------------------------------------------------------
(* The transport level. A request either raises a transport error          *)
(* (session.get or the read of the body raises) or is answered by a        *)
(* response with a status and a body. The body of the submission index is  *)
(* its "recent" table, one entry per row of the parallel columns; the body *)
(* of a filing document is its content; the body of an index page is the   *)
(* first href to a .txt artifact the regular expression finds in it, if    *)
(* any. An empty string of the feed is Absent, a non-empty one Some(_).    *)

TransportError == [kind |-> "error", status |-> 0, body |-> <<>>]

Response(code, body) == [kind |-> "response", status |-> code, body |-> body]

NoResponse == [kind |-> "none", status |-> 0, body |-> <<>>]

IndexPage(href) == [href |-> href]

(* An href of the index page that the pattern of line 69 matches: dir is   *)
(* the part matched by /Archives/edgar/data/\d+/\d+/ and name the part     *)
(* captured by the group ([^"]+\.txt).                                     *)
Link(dir, name) == [dir |-> dir, name |-> name]

(* Line 71: f"https://www.sec.gov{txt_match.group(1)}".                    *)
file_url(txt_match) == "https://www.sec.gov" \o txt_match.name

(* Line 45: recent["reportDate"][i] or recent["periodOfReport"][i].        *)
period_of_report(entry) ==
  IF entry.reportDate # Absent THEN entry.reportDate[1]
  ELSE entry.periodOfReport[1]

(* Lines 42-46.                                                            *)
filing_of(entry) ==
  [accession_number |-> entry.accessionNumber,
   filing_date |-> entry.filingDate,
   period_of_report |-> period_of_report(entry)]

(* Every matching row returned: the cut to five left out.                  *)
recent_filings_uncut(recent) ==
  LET matching == SelectSeq(recent, LAMBDA entry : entry.form = "13F-HR")
  IN  [k \in DOMAIN matching |-> filing_of(matching[k])]

(* Lines 38-49: the rows of form 13F-HR in table order, cut to five.       *)
recent_filings(recent) ==
  LET matching == SelectSeq(recent, LAMBDA entry : entry.form = "13F-HR")
      found == [k \in DOMAIN matching |-> filing_of(matching[k])]
  IN  SubSeq(found, 1, Min2(MaxFilings, Len(found)))

(* A task before its first request. requests is the log of its exchanges,  *)
(* content the document it handed to the parsers, if it came that far,     *)
(* retry_url the address assigned at line 71, once the index page gave a   *)
(* link.                                                                   *)
NewTask == [stage |-> "direct", requests |-> <<>>, content |-> Absent, retry_url |-> Absent]

Exchange(request, r) == [request |-> request, response |-> r]

(* Lines 29-49 from the upstream response on.                              *)
fetch_filings_response(feeds) ==
  /\ pc = "start"
  /\ \E r \in feeds :
       IF r.kind = "error"
       THEN /\ pc' = "raised"
            /\ net' = [net EXCEPT !.feed = r]
            /\ UNCHANGED <<filings, results>>
       ELSE LET found == IF r.status # 200 THEN <<>> ELSE recent_filings(r.body)
            IN  /\ pc' = "gather"
                /\ filings' = found
                /\ results' = [i \in DOMAIN found |-> Pending]
                /\ net' = [feed |-> r, tasks |-> [i \in DOMAIN found |-> NewTask],
                           order |-> <<>>]
  /\ UNCHANGED <<df, analysis, fx>>

(* The exception of a task absorbed: the task returns an empty list.       *)
task_raises_absorbed(i, exchange, content) ==
  /\ pc' = pc
  /\ net' = [net EXCEPT !.tasks[i] =
               [stage |-> "returned", requests |-> Append(@.requests, exchange),
                content |-> content, retry_url |-> @.retry_url],
             !.order = Append(@, i)]
  /\ results' = [results EXCEPT ![i] = Slot(<<>>)]

(* A task raises: gather re-raises in get_holdings and get_data fails.     *)
task_raises(i, exchange, content) ==
  /\ pc' = "raised"
  /\ net' = [net EXCEPT !.tasks[i] =
               [stage |-> "raised", requests |-> Append(@.requests, exchange),
                content |-> content, retry_url |-> @.retry_url]]
  /\ UNCHANGED results

(* A task returns its list into its own slot of gather.                    *)
task_returns(i, exchange, content, holdings) ==
  /\ pc' = pc
  /\ net' = [net EXCEPT !.tasks[i] =
               [stage |-> "returned", requests |-> Append(@.requests, exchange),
                content |-> content, retry_url |-> @.retry_url],
             !.order = Append(@, i)]
  /\ results' = [results EXCEPT ![i] = Slot(holdings)]

(* A task goes on to its next request.                                     *)
task_requests(i, exchange, stage) ==
  /\ pc' = pc
  /\ net' = [net EXCEPT !.tasks[i] =
               [@ EXCEPT !.stage = stage, !.requests = Append(@, exchange)]]
  /\ UNCHANGED results

(* Lines 70-72: a link was found and the task requests the address built   *)
(* from it.                                                                *)
task_retries(i, exchange, txt_match) ==
  /\ pc' = pc
  /\ net' = [net EXCEPT !.tasks[i] =
               [@ EXCEPT !.stage = "retry", !.requests = Append(@, exchange),
                         !.retry_url = Some(file_url(txt_match))]]
  /\ UNCHANGED results

(* Lines 83-106 on the document retrieved by the given request.            *)
task_parses(i, exchange, content) ==
  IF details_raise(content)
  THEN task_raises(i, exchange, Some(content))
  ELSE task_returns(i, exchange, Some(content), parse_content(content, filings[i]))

(* Lines 60-62 and 80-81: the direct fetch of the filing's document.       *)
response(documents) ==
  /\ pc = "gather"
  /\ \E i \in DOMAIN filings :
       /\ net.tasks[i].stage = "direct"
       /\ \E r \in documents :
            CASE r.kind = "error" -> task_raises(i, Exchange("direct", r), Absent)
              [] r.kind # "error" /\ r.status # 200 -> task_requests(i, Exchange("direct", r), "index")
              [] OTHER -> task_parses(i, Exchange("direct", r), r.body)
  /\ UNCHANGED <<filings, df, analysis, fx>>

(* The retry issued whether or not the index page holds a .txt link.       *)
index_response_unchecked(pages) ==
  /\ pc = "gather"
  /\ \E i \in DOMAIN filings :
       /\ net.tasks[i].stage = "index"
       /\ \E r \in pages :
            CASE r.kind = "error" -> task_raises(i, Exchange("index", r), Absent)
              [] r.kind # "error" /\ r.status # 200 -> task_returns(i, Exchange("index", r), Absent, <<>>)
              [] OTHER -> task_requests(i, Exchange("index", r), "retry")
  /\ UNCHANGED <<filings, df, analysis, fx>>

(* Lines 63-71 and 77-79: the index page of the filing.                    *)
index_response(pages) ==
  /\ pc = "gather"
  /\ \E i \in DOMAIN filings :
       /\ net.tasks[i].stage = "index"
       /\ \E r \in pages :
            CASE r.kind = "error" -> task_raises(i, Exchange("index", r), Absent)
              [] r.kind # "error" /\ r.status # 200 -> task_returns(i, Exchange("index", r), Absent, <<>>)
              [] OTHER ->
                   IF r.body.href # Absent
                   THEN task_retries(i, Exchange("index", r), r.body.href[1])
                   ELSE task_returns(i, Exchange("index", r), Absent, <<>>)
  /\ UNCHANGED <<filings, df, analysis, fx>>

(* The retry requested again after a non-success answer.                   *)
retry_response_again(documents) ==
  /\ pc = "gather"
  /\ \E i \in DOMAIN filings :
       /\ net.tasks[i].stage = "retry"
       /\ \E r \in documents :
            CASE r.kind = "error" -> task_raises(i, Exchange("retry", r), Absent)
              [] r.kind # "error" /\ r.status # 200 -> task_requests(i, Exchange("retry", r), "retry")
              [] OTHER -> task_parses(i, Exchange("retry", r), r.body)
  /\ UNCHANGED <<filings, df, analysis, fx>>

(* Lines 72-76: the retry against the discovered link.                     *)
retry_response(documents) ==
  /\ pc = "gather"
  /\ \E i \in DOMAIN filings :
       /\ net.tasks[i].stage = "retry"
       /\ \E r \in documents :
            CASE r.kind = "error" -> task_raises(i, Exchange("retry", r), Absent)
              [] r.kind # "error" /\ r.status # 200 -> task_returns(i, Exchange("retry", r), Absent, <<>>)
              [] OTHER -> task_parses(i, Exchange("retry", r), r.body)
  /\ UNCHANGED <<filings, df, analysis, fx>>

(* What the upstream services may answer.                                  *)

AccessionNumbers == <<"A1", "A2", "A3", "A4", "A5", "A6", "A7", "A8">>

FilingDates == <<"D1", "D2", "D3", "D4", "D5", "D6", "D7", "D8">>

(* The period k quarters before the newest one, wrapping round.           *)
PeriodBefore(k) == Periods[1 + ((2 * Len(Periods) - 1 - k) % Len(Periods))]

(* The k-th row of a recent table, newest first: its form, and whether     *)
(* its reportDate and periodOfReport are filled in.                        *)
Entry(k, kind) ==
  [accessionNumber |-> AccessionNumbers[k],
   filingDate |-> FilingDates[k],
   form |-> kind.form,
   reportDate |-> IF kind.report THEN Some(PeriodBefore(k - 1)) ELSE Absent,
   periodOfReport |-> IF kind.alternate THEN Some(PeriodBefore(k)) ELSE Absent]

EntryKind(form, report, alternate) ==
  [form |-> form, report |-> report, alternate |-> alternate]

EntryKinds ==
  {EntryKind("13F-HR", TRUE, FALSE), EntryKind("13F-HR", FALSE, TRUE),
   EntryKind("13F-HR", TRUE, TRUE), EntryKind("13F-HR/A", TRUE, FALSE),
   EntryKind("10-K", TRUE, FALSE)}

RecentTable(kinds) == [k \in DOMAIN kinds |-> Entry(k, kinds[k])]

MaxRecent == 3

LongTables ==
  {<<EntryKind("10-K", TRUE, FALSE), EntryKind("13F-HR", TRUE, FALSE),
     EntryKind("13F-HR", FALSE, TRUE), EntryKind("13F-HR/A", TRUE, FALSE),
     EntryKind("13F-HR", TRUE, TRUE), EntryKind("13F-HR", TRUE, FALSE)>> \o tail :
     tail \in {<<>>, <<EntryKind("13F-HR", TRUE, FALSE)>>,
               <<EntryKind("13F-HR", TRUE, FALSE), EntryKind("13F-HR", TRUE, FALSE)>>}}

LocateFeeds ==
  {TransportError, Response(503, <<>>), Response(404, <<>>)} \cup
  {Response(200, RecentTable(kinds)) :
     kinds \in LongTables \cup UNION {[1..n -> EntryKinds] : n \in 0..MaxRecent}}

NetFeeds ==
  {TransportError, Response(503, <<>>),
   Response(200, RecentTable(<<EntryKind("13F-HR", TRUE, FALSE)>>)),
   Response(200, RecentTable(<<EntryKind("13F-HR", TRUE, FALSE),
                               EntryKind("10-K", TRUE, FALSE),
                               EntryKind("13F-HR", FALSE, TRUE),
                               EntryKind("13F-HR", TRUE, FALSE)>>))}

(* A position element without its <value> child.                           *)
TableWithoutValue(name, cusip, shares) ==
  [nameOfIssuer |-> <<name>>, cusip |-> <<cusip>>, value |-> <<>>,
   sshPrnamt |-> <<shares>>]

NetContents ==
  {XmlContent("ACME CAPITAL", <<Table("ALPHA", "00000A101", "1000", "10")>>),
   XmlContent("ZENITH PARTNERS", <<Table("BETA", "00000B102", "500", "10")>>),
   XmlContent("ACME CAPITAL", <<Table("BETA", "00000B102", "2", "1000"),
                                TableWithoutValue("GAMMA", "00000G103", "10")>>),
   TextContent("ACME CAPITAL",
               << <<"NAME", "OF", "ISSUER", "CUSIP", "VALUE", "SHARES">>,
                  <<"------">>,
                  <<"BETA", "CORP", "COM", "00000B102", "500", "100000">>,
                  <<>>,
                  <<"CHI", "CORP", "00000C102", "500", "100000">>,
                  <<"DELTA", "INC", "COM", "00000D102", "3", "0", "SOLE">> >>),
   TextContent("ACME CAPITAL",
               << <<"NAME", "OF", "ISSUER", "CUSIP", "VALUE", "SHARES">>,
                  <<"------">>,
                  <<"BETA", "CORP", "COM", "00000B102", "N/A", "100000">> >>),
   NoTableContent}

NetDocuments ==
  {TransportError, Response(404, <<>>)} \cup
  {Response(200, content) : content \in NetContents}

NetPages ==
  {TransportError, Response(404, <<>>), Response(200, IndexPage(Absent)),
   Response(200, IndexPage(Some(Link("/Archives/edgar/data/1067983/000095012324004321/",
                                     "filing.txt"))))}

NextNet ==
  \/ fetch_filings_response(NetFeeds)
  \/ response(NetDocuments)
  \/ index_response(NetPages)
  \/ retry_response(NetDocuments)
  \/ get_data

SpecNet == Init /\ [][NextNet]_vars

NextLocate == fetch_filings_response(LocateFeeds)

SpecLocate == Init /\ [][NextLocate]_vars

-----------------------------------------------------------------------------
(* parse_text_info_table on its own, over legacy tables whose header line  *)
(* varies: the usual one, one in mixed case, one whose first word is not   *)
(* NAME, one without a CUSIP column and one that holds the word NAME       *)
(* twice. The line after the header is a rule or looks like a data row.    *)

TextHeaders ==
  {<<"NAME", "OF", "ISSUER", "CUSIP", "VALUE", "SHARES">>,
   <<"Name", "of", "Issuer", "CUSIP", "VALUE", "SHARES">>,
   <<"CUSIP", "NAME", "OF", "ISSUER", "VALUE", "SHARES">>,
   <<"NAME", "OF", "ISSUER", "VALUE", "SHARES">>,
   <<"NAME", "OF", "ISSUER", "CUSIP", "VALUE", "SHARES", "NAME">>}

TextRule == <<"------">>

TextRows ==
  {<<>>,
   <<"BETA", "CORP", "COM", "00000B102", "500", "100000">>,
   <<"BETA", "CORP", "COM", "00000B102", "500", "100000", "SOLE">>,
   <<"CHI", "CORP", "00000C102", "500", "100000">>,
   <<"00000A101", "ALPHA", "INC", "COM", "10", "1000">>,
   <<"EPSILON", "FUND", "COM", "00000E102", "2", "10", "SOLE", "NONE">>}

MaxRows == 2

TextTables ==
  {preamble \o <<headers, after>> \o rows :
     preamble \in {<<>>, << <<"FORM", "13F", "INFORMATION", "TABLE">> >>},
     headers \in TextHeaders,
     after \in {TextRule, <<"BETA", "CORP", "COM", "00000B102", "500", "100000", "SOLE">>},
     rows \in UNION {[1..n -> TextRows] : n \in 0..MaxRows}}

InitText ==
  /\ pc = "text"
  /\ filings = <<>>
  /\ results = <<Pending>>
  /\ df = <<>>
  /\ analysis = EmptyResult
  /\ net = NoNet
  /\ \E lines \in TextTables : fx = [lines |-> lines]

(* Lines 132-163 applied to the lines of the table.                        *)
apply_parse_text_info_table ==
  /\ pc = "text"
  /\ IF parse_text_raises(fx.lines)
     THEN /\ pc' = "raised"
          /\ UNCHANGED results
     ELSE /\ pc' = "parsed"
          /\ results' = <<Slot(parse_text_info_table(fx.lines, "A1", Period(2024, 6),
                                                     "ACME CAPITAL"))>>
  /\ UNCHANGED <<filings, df, analysis, fx, net>>

NextText == apply_parse_text_info_table

SpecText == InitText /\ [][NextText]_vars

-----------------------------------------------------------------------------
(* analyze_holdings over IEEE-754 values. The integer translation above    *)
(* covers inputs whose numbers are finite; float() also accepts the texts  *)
(* "inf", "-inf" and "nan", and shift(1) produces NaN, so the same lines   *)
(* are translated once more over values that are finite numbers, signed    *)
(* infinities or NaN, with the replacement of lines 234-243 as a step of   *)
(* its own. A cell of the output is such a value or None.                  *)

Fin(n) == [kind |-> "finite", num |-> n]

Inf(sign) == [kind |-> "inf", num |-> sign]

NaN == [kind |-> "nan", num |-> 0]

None == [kind |-> "none", num |-> 0]

isna(x) == x.kind = "nan"

f_neg(x) == IF isna(x) THEN x ELSE [x EXCEPT !.num = -@]

f_add(a, b) ==
  CASE isna(a) \/ isna(b) -> NaN
    [] ~isna(a) /\ ~isna(b) /\ a.kind = "inf" /\ b.kind = "inf" ->
         IF a.num = b.num THEN a ELSE NaN
    [] ~isna(b) /\ a.kind = "inf" /\ b.kind = "finite" -> a
    [] ~isna(a) /\ a.kind = "finite" /\ b.kind = "inf" -> b
    [] OTHER -> Fin(a.num + b.num)

f_sub(a, b) == f_add(a, f_neg(b))

f_abs(x) == IF isna(x) THEN x ELSE [x EXCEPT !.num = Abs(@)]

(* x * 1000 and x / 1000; the finite numbers of the model are whole        *)
(* multiples of 1000 where they are divided.                               *)
f_times_1000(x) == IF x.kind = "finite" THEN Fin(x.num * 1000) ELSE x

f_over_1000(x) == IF x.kind = "finite" THEN Fin(x.num \div 1000) ELSE x

(* a >= b as IEEE compares: false when either side is NaN.                 *)
f_ge(a, b) ==
  CASE isna(a) \/ isna(b) -> FALSE
    [] ~isna(a) /\ ~isna(b) /\ a.kind = "inf" -> a.num = 1 \/ (b.kind = "inf" /\ b.num = -1)
    [] ~isna(a) /\ a.kind = "finite" /\ b.kind = "inf" -> b.num = -1
    [] OTHER -> a.num >= b.num

FloatTexts ==
  ("1" :> Fin(1)) @@ ("2000" :> Fin(2000)) @@ ("0" :> Fin(0)) @@
  ("inf" :> Inf(1)) @@ ("-inf" :> Inf(-1)) @@ ("nan" :> NaN)

float_ieee(text) == FloatTexts[text]

(* Line 178: (sshprnamt == 0) | (value * 1000 / sshprnamt > 1000).         *)
is_zero(x) == x.kind = "finite" /\ x.num = 0

ratio_exceeds_ieee(value, sshprnamt) ==
  CASE isna(value) \/ isna(sshprnamt) -> FALSE
    [] ~isna(value) /\ sshprnamt.kind = "inf" -> FALSE
    [] value.kind = "inf" /\ sshprnamt.kind = "finite" ->
         value.num * sshprnamt.num > 0
    [] OTHER -> ratio_exceeds(value.num, sshprnamt.num)

value_fixed_ieee(value, sshprnamt) ==
  IF is_zero(sshprnamt) \/ ratio_exceeds_ieee(value, sshprnamt)
  THEN f_over_1000(value)
  ELSE value

normalize_ieee(data) ==
  [i \in DOMAIN data |->
     data[i] @@ [value_fixed |-> value_fixed_ieee(data[i].value, data[i].sshprnamt),
                 quarter |-> Quarter(data[i].period_of_report)]]

(* agg "sum": NaN cells are skipped, an empty sum is 0.                    *)
RECURSIVE sum_ieee(_)
sum_ieee(s) ==
  IF s = <<>> THEN Fin(0)
  ELSE IF isna(Head(s)) THEN sum_ieee(Tail(s))
  ELSE f_add(Head(s), sum_ieee(Tail(s)))

groupby_issuer_ieee(frame) ==
  LET ranks == SortedInts({NameRank(frame[i].name_of_issuer) : i \in DOMAIN frame})
  IN  [k \in DOMAIN ranks |->
         LET rows == SelectSeq(frame, LAMBDA row :
                                 row.name_of_issuer = name_of_rank(ranks[k]))
         IN  [name_of_issuer |-> name_of_rank(ranks[k]),
              value_fixed |-> sum_ieee(Column(rows, "value_fixed")),
              sshprnamt |-> sum_ieee(Column(rows, "sshprnamt"))]]

(* nlargest: the rows without NaN in descending order, ties in frame       *)
(* order, then the rows with NaN.                                          *)
RECURSIVE insert_desc_ieee(_, _)
insert_desc_ieee(sorted, row) ==
  IF sorted = <<>> THEN <<row>>
  ELSE IF f_ge(Head(sorted).value_fixed, row.value_fixed)
       THEN <<Head(sorted)>> \o insert_desc_ieee(Tail(sorted), row)
       ELSE <<row>> \o sorted

RECURSIVE sort_desc_ieee(_)
sort_desc_ieee(frame) ==
  IF frame = <<>> THEN <<>>
  ELSE insert_desc_ieee(sort_desc_ieee(SubSeq(frame, 1, Len(frame) - 1)),
                        frame[Len(frame)])

nlargest_ieee(frame, n) ==
  LET ordered == sort_desc_ieee(SelectSeq(frame, LAMBDA row : ~isna(row.value_fixed)))
                   \o SelectSeq(frame, LAMBDA row : isna(row.value_fixed))
  IN  SubSeq(ordered, 1, Min2(n, Len(ordered)))

top_holdings_ieee(frame) ==
  LET latest == latest_quarter(frame)
  IN  nlargest_ieee(groupby_issuer_ieee(SelectSeq(frame, LAMBDA row :
                                                    row.quarter = latest)),
                    TopN)

groupby_issuer_quarter_ieee(frame) ==
  LET keys == group_keys(frame)
  IN  [k \in DOMAIN keys |->
         LET rows == SelectSeq(frame, LAMBDA row :
                                 /\ row.name_of_issuer = name_of_rank(keys[k][1])
                                 /\ row.quarter = keys[k][2])
         IN  [name_of_issuer |-> name_of_rank(keys[k][1]),
              quarter |-> keys[k][2],
              value_fixed |-> sum_ieee(Column(rows, "value_fixed")),
              sshprnamt |-> sum_ieee(Column(rows, "sshprnamt")),
              accession_number |-> rows[1].accession_number]]

(* shift(1) within the issuer: NaN on the issuer's first row.              *)
shift_ieee(grouped, k, col) ==
  IF k > 1 /\ grouped[k - 1].name_of_issuer = grouped[k].name_of_issuer
  THEN grouped[k - 1][col]
  ELSE NaN

fillna_ieee(x, default) == IF isna(x) THEN default ELSE x

(* Lines 206-213 before the replacement.                                   *)
changes_ieee(frame) ==
  LET grouped == groupby_issuer_quarter_ieee(frame)
  IN  [k \in DOMAIN grouped |->
         LET prev_value == shift_ieee(grouped, k, "value_fixed")
             prev_sshprnamt == shift_ieee(grouped, k, "sshprnamt")
         IN  [name_of_issuer |-> grouped[k].name_of_issuer,
              quarter |-> grouped[k].quarter,
              value_fixed |-> grouped[k].value_fixed,
              sshprnamt |-> grouped[k].sshprnamt,
              prev_value |-> prev_value,
              value_change |->
                f_abs(f_sub(grouped[k].value_fixed, fillna_ieee(prev_value, Fin(0)))),
              prev_sshprnamt |-> prev_sshprnamt,
              sshprnamt_change |->
                f_abs(f_sub(grouped[k].sshprnamt, fillna_ieee(prev_sshprnamt, Fin(0))))]]

(* Lines 215-232 before the replacement.                                   *)
all_holdings_ieee(frame) ==
  LET grouped == groupby_issuer_quarter_ieee(frame)
      last_two == last_two_quarters(grouped)
  IN  [k \in DOMAIN grouped |->
         LET prev_value == shift_ieee(grouped, k, "value_fixed")
             prev_sshprnamt == shift_ieee(grouped, k, "sshprnamt")
         IN  [name_of_issuer |-> grouped[k].name_of_issuer,
              quarter |-> grouped[k].quarter,
              value_fixed |-> grouped[k].value_fixed,
              sshprnamt |-> grouped[k].sshprnamt,
              accession_number |-> grouped[k].accession_number,
              prev_value |-> prev_value,
              value_change |-> f_sub(grouped[k].value_fixed, prev_value),
              prev_sshprnamt |-> prev_sshprnamt,
              sshprnamt_change |-> f_sub(grouped[k].sshprnamt, prev_sshprnamt),
              status |->
                IF isna(prev_value) /\ grouped[k].quarter \in last_two
                THEN "New Position" ELSE ""]]

(* NaN replaced, the infinities left in place.                             *)
replace_nan_only(x) == IF isna(x) THEN None ELSE x

(* .replace([np.inf, -np.inf, np.nan], None) on one cell.                  *)
replace(x) == IF x.kind \in {"inf", "nan"} THEN None ELSE x

(* Lines 234-242: the replacement on the listed columns of a frame; the    *)
(* other columns are left as they are.                                     *)
replace_columns(frame, cols) ==
  [k \in DOMAIN frame |->
     [col \in DOMAIN frame[k] |->
        IF col \in cols THEN replace(frame[k][col]) ELSE frame[k][col]]]

NumericColumns ==
  {"value_fixed", "sshprnamt", "value_change", "sshprnamt_change",
   "prev_value", "prev_sshprnamt"}

analyze_holdings_ieee(data) ==
  IF data = <<>> THEN EmptyResult
  ELSE LET frame == filter_quarters(normalize_ieee(data))
       IN  [top_holdings |->
              replace_columns(top_holdings_ieee(frame), {"value_fixed", "sshprnamt"}),
            changes |-> replace_columns(changes_ieee(frame), NumericColumns),
            all_holdings |-> replace_columns(all_holdings_ieee(frame), NumericColumns),
            manager_name |->
              IF frame # <<>> THEN title(frame[1].filing_manager_name)
              ELSE "Unknown"]

(* The holdings the parsers hand over: float(text) * 1000 as value and     *)
(* float(text) as share count, for the texts float() accepts.              *)
ParsedHolding(name, period, texts) ==
  [accession_number |-> "A1",
   period_of_report |-> period,
   filing_manager_name |-> "ACME CAPITAL",
   name_of_issuer |-> name,
   cusip |-> "000000000",
   value |-> f_times_1000(float_ieee(texts[1])),
   sshprnamt |-> float_ieee(texts[2])]

ParsedHoldings ==
  {ParsedHolding(name, period, texts) :
     name \in {"ALPHA", "BETA"},
     period \in {Period(2024, 6), Period(2024, 9)},
     texts \in {<<"1", "1">>, <<"inf", "1">>, <<"-inf", "0">>,
                <<"nan", "inf">>, <<"2000", "nan">>}}

MaxParsed == 2

InitIEEE ==
  /\ pc = "parsed"
  /\ filings = <<>>
  /\ results = <<>>
  /\ df \in UNION {[1..n -> ParsedHoldings] : n \in 1..MaxParsed}
  /\ analysis = EmptyResult
  /\ fx = NoFix
  /\ net = NoNet

apply_analyze_holdings ==
  /\ pc = "parsed"
  /\ pc' = "analysed"
  /\ analysis' = analyze_holdings_ieee(df)
  /\ UNCHANGED <<filings, results, df, fx, net>>

NextIEEE == apply_analyze_holdings

SpecIEEE == InitIEEE /\ [][NextIEEE]_vars

-----------------------------------------------------------------------------
(* Shared vocabulary of the properties. SetSum(S, f) is the sum of f over  *)
(* the index set S, taken in no particular order.                          *)

RECURSIVE SetSum(_, _)
SetSum(S, f) ==
  IF S = {} THEN 0
  ELSE LET x == CHOOSE y \in S : TRUE
       IN  f[x] + SetSum(S \ {x}, f)

Done == pc = "done"

QuartersOf(rows) == {rows[k].quarter : k \in DOMAIN rows}

(* Rows of the same issuer in a strictly earlier quarter.                  *)
Earlier(rows, k) ==
  {j \in DOMAIN rows :
     /\ rows[j].name_of_issuer = rows[k].name_of_issuer
     /\ rows[j].quarter < rows[k].quarter}

(* The row of the same issuer in the chronologically preceding quarter.    *)
Predecessor(rows, k) ==
  CHOOSE j \in Earlier(rows, k) :
    \A i \in Earlier(rows, k) : rows[i].quarter <= rows[j].quarter

(* q is one of the two most recent quarters of Qs.                         *)
AmongLastTwo(q, Qs) == Cardinality({r \in Qs : r > q}) < 2

-----------------------------------------------------------------------------
(* C1. A row of all_holdings is flagged "New Position" if and only if its  *)
(* issuer has no aggregate in an earlier quarter (prev_value absent) and   *)
(* its quarter is one of the two most recent quarters of the selected      *)
(* dataset; every other row has the empty status.                          *)
C1_NewPositionRule ==
  Done =>
    LET rows == analysis.all_holdings
    IN  \A k \in DOMAIN rows :
          /\ (rows[k].prev_value = Absent) <=> (Earlier(rows, k) = {})
          /\ rows[k].status =
               IF Earlier(rows, k) = {}
                  /\ AmongLastTwo(rows[k].quarter, QuartersOf(rows))
               THEN "New Position"
               ELSE ""

(* The example of the claim: quarters 2023Q4..2024Q3 selected, an issuer   *)
(* held only in 2023Q4 is not flagged, one first held in 2024Q3 is.        *)
C1_Witness ==
  /\ Done
  /\ LET rows == analysis.all_holdings
     IN  /\ QuartersOf(rows) = {20234, 20241, 20242, 20243}
         /\ \E k \in DOMAIN rows :
              /\ rows[k].quarter = 20234
              /\ rows[k].status = ""
              /\ \A j \in DOMAIN rows :
                   rows[j].name_of_issuer = rows[k].name_of_issuer => j = k
         /\ \E k \in DOMAIN rows :
              /\ rows[k].quarter = 20243
              /\ Earlier(rows, k) = {}
              /\ rows[k].status = "New Position"

(* C2 as stated. The structured position reporting value 1000 with 10      *)
(* shares ends with value_fixed 1,000,000 and the legacy row reporting     *)
(* VALUE 500 with 100000 SHARES with value_fixed 500,000: neither is       *)
(* divided by 1000.                                                        *)
C2_AsStated ==
  Done =>
    \A i \in DOMAIN df :
      /\ df[i].sshprnamt = 10 => df[i].value_fixed = 1000000
      /\ df[i].sshprnamt = 100000 => df[i].value_fixed = 500000

(* C2, amended. Both parsers scale the reported figure by 1000 (1,000,000  *)
(* and 500,000) and the unit correction divides both by 1000 again, since  *)
(* value * 1000 / share_count is 10^8 and 5000: value_fixed is 1000 for    *)
(* the structured position and 500 for the legacy row.                     *)
C2_EndToEnd ==
  Done =>
    \A i \in DOMAIN df :
      /\ df[i].sshprnamt = 10 =>
           /\ df[i].name_of_issuer = "ALPHA"
           /\ df[i].value = 1000000
           /\ df[i].value_fixed = 1000
      /\ df[i].sshprnamt = 100000 =>
           /\ df[i].name_of_issuer = "BETA"
           /\ df[i].value = 500000
           /\ df[i].value_fixed = 500

C2_Witness ==
  /\ Done
  /\ Len(filings) = 2
  /\ \E i \in DOMAIN df : df[i].sshprnamt = 10
  /\ \E i \in DOMAIN df : df[i].sshprnamt = 100000

(* C3. value_fixed is value / 1000 when share_count is zero or             *)
(* value * 1000 / share_count exceeds 1000, and value itself otherwise.    *)
C3_UnitCorrection ==
  Done =>
    \A i \in DOMAIN df :
      LET v == df[i].value
          s == df[i].sshprnamt
      IN  IF s = 0 \/ (s > 0 /\ v * 1000 > 1000 * s)
          THEN df[i].value_fixed * 1000 = v
          ELSE df[i].value_fixed = v

C3_Witness ==
  /\ Done
  /\ \E i \in DOMAIN df :
       df[i].sshprnamt = 0 /\ df[i].value > 0 /\ df[i].value_fixed * 1000 = df[i].value
  /\ \E i \in DOMAIN df :
       df[i].sshprnamt > 0 /\ df[i].value_fixed * 1000 = df[i].value
  /\ \E i \in DOMAIN df :
       df[i].sshprnamt > 0 /\ df[i].value > 0 /\ df[i].value_fixed = df[i].value

(* C4 as stated. Applying the heuristic to an already-corrected value with *)
(* the same share_count returns it unchanged: fix(fix(v, s), s) =          *)
(* fix(v, s) for every pair.                                               *)
C4_AsStated ==
  Len(fx.applied) = 2 => fx.applied[2] = fx.applied[1]

(* C4, amended. For nonnegative inputs fix(fix(v, s), s) = fix(v, s)       *)
(* exactly when v = 0, or share_count > 0 and v <= 1000 * share_count; in  *)
(* every other case the second application divides the once-corrected     *)
(* value by 1000 again. No application ever scales a value up.             *)
C4_Reapplication ==
  Len(fx.applied) = 2 =>
    LET v == fx.value
        s == fx.sshprnamt
        stable == v = 0 \/ (s > 0 /\ v <= 1000 * s)
    IN  /\ stable => fx.applied[2] = fx.applied[1]
        /\ ~stable => /\ fx.applied[2] * 1000 = fx.applied[1]
                      /\ fx.applied[2] # fx.applied[1]
        /\ fx.applied[1] <= v
        /\ fx.applied[2] <= fx.applied[1]

(* A value corrected by the first application and kept by the second.      *)
C4_Witness ==
  /\ Len(fx.applied) = 2
  /\ fx.applied[1] # fx.value
  /\ fx.applied[2] = fx.applied[1]

(* C5. The selected quarters include 2024Q1 whenever the input holds it,   *)
(* are at most 4, and apart from 2024Q1 are the most recent ones present:  *)
(* no selected quarter other than the anchor is older than an unselected   *)
(* one.                                                                    *)
C5_QuarterSelection ==
  Done =>
    LET present == QuartersOf(df)
        selected == QuartersOf(analysis.all_holdings)
    IN  /\ selected \subseteq present
        /\ 20241 \in present => 20241 \in selected
        /\ Cardinality(selected) <= 4
        /\ \A q \in selected \ {20241} : \A r \in present \ selected : r < q

(* Five quarters present, 2024Q1 the oldest: it is kept, 2024Q2 is not.    *)
C5_Witness ==
  /\ Done
  /\ QuartersOf(df) = {20241, 20242, 20243, 20244, 20251}
  /\ QuartersOf(analysis.all_holdings) = {20241, 20243, 20244, 20251}

-----------------------------------------------------------------------------
(* Aggregates stated over the input rows, in no particular order.          *)

(* The rows of df that the quarter selection keeps.                        *)
SelectedRows ==
  {i \in DOMAIN df : df[i].quarter \in QuartersOf(analysis.all_holdings)}

RowsOf(name, quarter) ==
  {i \in SelectedRows :
     df[i].name_of_issuer = name /\ df[i].quarter = quarter}

TotalValue(name, quarter) ==
  SetSum(RowsOf(name, quarter), Column(df, "value_fixed"))

TotalShares(name, quarter) ==
  SetSum(RowsOf(name, quarter), Column(df, "sshprnamt"))

(* prev_value and prev_sshprnamt of row k are those of the issuer's        *)
(* chronologically preceding selected quarter, absent when there is none.  *)
PrevIsPrecedingQuarter(rows) ==
  \A k \in DOMAIN rows :
    IF Earlier(rows, k) = {}
    THEN rows[k].prev_value = Absent /\ rows[k].prev_sshprnamt = Absent
    ELSE LET q == rows[Predecessor(rows, k)].quarter
         IN  /\ rows[k].prev_value =
                  Some(TotalValue(rows[k].name_of_issuer, q))
             /\ rows[k].prev_sshprnamt =
                  Some(TotalShares(rows[k].name_of_issuer, q))

(* C6. For every issuer and quarter of the aggregated output, prev_value   *)
(* and prev_share_count are the aggregate of the chronologically           *)
(* preceding quarter in which the issuer appears in the filtered dataset,  *)
(* absent when there is none, whatever the order of the input.             *)
C6_PreviousQuarter ==
  Done =>
    /\ PrevIsPrecedingQuarter(analysis.all_holdings)
    /\ PrevIsPrecedingQuarter(analysis.changes)

(* An issuer held in 2024Q1 and 2024Q3 but not in 2024Q2 (which another    *)
(* issuer holds), its 2024Q3 holding supplied before its 2024Q1 holding.   *)
C6_Witness ==
  /\ Done
  /\ LET rows == analysis.all_holdings
     IN  \E k \in DOMAIN rows :
           /\ rows[k].quarter = 20243
           /\ Earlier(rows, k) # {}
           /\ rows[Predecessor(rows, k)].quarter = 20241
           /\ 20242 \in QuartersOf(rows)
           /\ \E i, j \in DOMAIN df :
                /\ i < j
                /\ df[i].name_of_issuer = rows[k].name_of_issuer
                /\ df[j].name_of_issuer = rows[k].name_of_issuer
                /\ df[i].quarter = 20243
                /\ df[j].quarter = 20241

(* Rows of the latest selected quarter, and the issuers among them.        *)
LatestQuarter ==
  CHOOSE q \in QuartersOf(analysis.all_holdings) :
    \A r \in QuartersOf(analysis.all_holdings) : r <= q

LatestIssuers ==
  {df[i].name_of_issuer : i \in {j \in DOMAIN df : df[j].quarter = LatestQuarter}}

FirstInput(name) ==
  CHOOSE i \in RowsOf(name, LatestQuarter) :
    \A j \in RowsOf(name, LatestQuarter) : i <= j

InputOrder(a, b) == FirstInput(a) < FirstInput(b)

NameOrder(a, b) == NameRank(a) < NameRank(b)

(* Issuer a ranks before issuer b: larger sum first, and on equal sums the *)
(* tie rule decides, "name" for the name order and "input" for the input   *)
(* order.                                                                  *)
RanksBefore(a, b, tie) ==
  \/ TotalValue(a, LatestQuarter) > TotalValue(b, LatestQuarter)
  \/ /\ TotalValue(a, LatestQuarter) = TotalValue(b, LatestQuarter)
     /\ IF tie = "name" THEN NameOrder(a, b) ELSE InputOrder(a, b)

TopHoldingsRanked(tie) ==
  LET top == analysis.top_holdings
      names == {top[k].name_of_issuer : k \in DOMAIN top}
  IN  /\ Len(top) = Min2(5, Cardinality(LatestIssuers))
      /\ names \subseteq LatestIssuers
      /\ \A k \in DOMAIN top :
           /\ top[k].value_fixed = TotalValue(top[k].name_of_issuer, LatestQuarter)
           /\ top[k].sshprnamt = TotalShares(top[k].name_of_issuer, LatestQuarter)
      /\ \A j, k \in DOMAIN top :
           j < k => RanksBefore(top[j].name_of_issuer, top[k].name_of_issuer, tie)
      /\ \A k \in DOMAIN top : \A n \in LatestIssuers \ names :
           RanksBefore(top[k].name_of_issuer, n, tie)

(* C7 as stated. Top holdings are the at most 5 issuers of the latest      *)
(* selected quarter with the largest summed value_fixed, in descending     *)
(* order, equal sums ranked by input order.                                *)
C7_AsStated == Done => TopHoldingsRanked("input")

(* C7, amended. As stated, except that equal sums are ranked by issuer     *)
(* name in ascending order (the order of the grouped frame), not by input  *)
(* order.                                                                  *)
C7_TopHoldings == Done => TopHoldingsRanked("name")

(* Six issuers in the latest quarter and an older quarter left out: the    *)
(* result is cut to 5, and two issuers with equal sums appear in the       *)
(* input in the reverse of their name order.                               *)
C7_Witness ==
  /\ Done
  /\ Cardinality(LatestIssuers) = 6
  /\ Len(analysis.top_holdings) = 5
  /\ \E i \in DOMAIN df : df[i].quarter < LatestQuarter
  /\ \E a, b \in LatestIssuers :
       /\ TotalValue(a, LatestQuarter) = TotalValue(b, LatestQuarter)
       /\ NameOrder(a, b)
       /\ InputOrder(b, a)
  /\ \E a \in LatestIssuers : Cardinality(RowsOf(a, LatestQuarter)) > 1

(* C8. Every value_change and share_count_change of the changes view is    *)
(* the absolute value of current minus previous, a missing previous taken  *)
(* as zero, and so is never negative.                                      *)
C8_ChangesNonNegative ==
  Done =>
    LET rows == analysis.changes
    IN  \A k \in DOMAIN rows :
          LET dv == rows[k].value_fixed -
                      (IF rows[k].prev_value = Absent THEN 0
                       ELSE rows[k].prev_value[1])
              ds == rows[k].sshprnamt -
                      (IF rows[k].prev_sshprnamt = Absent THEN 0
                       ELSE rows[k].prev_sshprnamt[1])
          IN  /\ rows[k].value_change >= 0
              /\ rows[k].sshprnamt_change >= 0
              /\ rows[k].value_change \in {dv, -dv}
              /\ rows[k].sshprnamt_change \in {ds, -ds}

(* A position that shrank since the previous quarter, and one without a    *)
(* previous quarter.                                                       *)
C8_Witness ==
  /\ Done
  /\ LET rows == analysis.changes
     IN  /\ \E k \in DOMAIN rows :
              /\ rows[k].prev_value # Absent
              /\ rows[k].value_fixed < rows[k].prev_value[1]
              /\ rows[k].value_change > 0
         /\ \E k \in DOMAIN rows :
              /\ rows[k].prev_value = Absent
              /\ rows[k].value_change = rows[k].value_fixed
              /\ rows[k].value_change > 0

(* C9. In all_holdings value_change and share_count_change are the signed  *)
(* difference current minus previous, and they are null exactly when the   *)
(* issuer has no prior quarter in the selected dataset.                    *)
C9_SignedChanges ==
  Done =>
    LET rows == analysis.all_holdings
    IN  \A k \in DOMAIN rows :
          IF Earlier(rows, k) = {}
          THEN /\ rows[k].value_change = Absent
               /\ rows[k].sshprnamt_change = Absent
          ELSE LET p == Predecessor(rows, k)
               IN  /\ rows[k].value_change =
                        Some(rows[k].value_fixed - rows[p].value_fixed)
                   /\ rows[k].sshprnamt_change =
                        Some(rows[k].sshprnamt - rows[p].sshprnamt)

(* A negative signed change beside a null one.                             *)
C9_Witness ==
  /\ Done
  /\ LET rows == analysis.all_holdings
     IN  /\ \E k \in DOMAIN rows :
              rows[k].value_change # Absent /\ rows[k].value_change[1] < 0
         /\ \E k \in DOMAIN rows : rows[k].value_change = Absent

Permute(rows, order) == [i \in DOMAIN rows |-> rows[order[i]]]

Sums(rows) ==
  {<<rows[k].name_of_issuer, rows[k].quarter, rows[k].value_fixed,
     rows[k].sshprnamt>> : k \in DOMAIN rows}

(* C10. The summed value_fixed and share_count of every (issuer, quarter)  *)
(* aggregate are the sums over all input rows of that issuer and quarter,  *)
(* whatever their security identifiers, and every permutation of the       *)
(* input yields the same sums.                                             *)
C10_AggregationCommutes ==
  Done =>
    /\ \A rows \in {analysis.changes, analysis.all_holdings} :
         /\ \A k \in DOMAIN rows :
              /\ rows[k].value_fixed =
                   TotalValue(rows[k].name_of_issuer, rows[k].quarter)
              /\ rows[k].sshprnamt =
                   TotalShares(rows[k].name_of_issuer, rows[k].quarter)
         /\ \A i \in SelectedRows : \E k \in DOMAIN rows :
              /\ rows[k].name_of_issuer = df[i].name_of_issuer
              /\ rows[k].quarter = df[i].quarter
         /\ \A j, k \in DOMAIN rows :
              (/\ rows[j].name_of_issuer = rows[k].name_of_issuer
               /\ rows[j].quarter = rows[k].quarter) => j = k
    /\ \A order \in Permutations(DOMAIN df) :
         LET permuted == filter_quarters(Permute(df, order))
         IN  /\ Sums(changes(permuted)) = Sums(analysis.changes)
             /\ Sums(all_holdings(permuted)) = Sums(analysis.all_holdings)

(* Two rows of one issuer and quarter with different security identifiers  *)
(* summed into one aggregate.                                              *)
C10_Witness ==
  /\ Done
  /\ \E i, j \in DOMAIN df :
       /\ i # j
       /\ df[i].name_of_issuer = df[j].name_of_issuer
       /\ df[i].quarter = df[j].quarter
       /\ df[i].cusip # df[j].cusip
       /\ df[i].value_fixed > 0
       /\ df[j].value_fixed > 0
       /\ \E k \in DOMAIN analysis.all_holdings :
            /\ analysis.all_holdings[k].name_of_issuer = df[i].name_of_issuer
            /\ analysis.all_holdings[k].quarter = df[i].quarter
            /\ analysis.all_holdings[k].value_fixed >=
                 df[i].value_fixed + df[j].value_fixed

-----------------------------------------------------------------------------
(* Vocabulary of the transport-level properties.                           *)

LocatorAnswered == net.feed.kind = "response"

Returned(i) == net.tasks[i].stage = "returned"

Raised(i) == net.tasks[i].stage = "raised"

(* The task ended without a document: a request of it raised, or its       *)
(* retrieval attempts ended in a non-success answer.                       *)
FetchFailed(i) == (Returned(i) \/ Raised(i)) /\ net.tasks[i].content = Absent

(* The response to the last request the task made.                         *)
LastResponse(i) == net.tasks[i].requests[Len(net.tasks[i].requests)].response

(* C11 as stated. Once the submission index has been answered, the only    *)
(* failure that reaches the caller of get_data is the 404, raised only     *)
(* when every filing has been processed and the flat holdings list is      *)
(* empty; whatever happens to one filing is absorbed and the request       *)
(* never ends in another error.                                            *)
C11_AsStated ==
  LocatorAnswered =>
    /\ pc # "raised"
    /\ pc = "not_found" =>
         /\ \A i \in DOMAIN results : results[i].done
         /\ holdings_of(results) = <<>>
    /\ pc = "done" => holdings_of(results) # <<>>

(* C12 as stated. Whichever filings fail to be fetched and however the     *)
(* fetches interleave, a failed filing contributes the empty list, its     *)
(* siblings keep their results, and once every task has ended              *)
(* get_holdings returns the holdings of exactly the filings that were      *)
(* retrieved.                                                              *)
C12_AsStated ==
  /\ \A i \in DOMAIN net.tasks :
       FetchFailed(i) =>
         /\ results[i] = Slot(<<>>)
         /\ pc # "raised"
         /\ \A j \in DOMAIN net.tasks :
              (j # i /\ Returned(j) /\ net.tasks[j].content # Absent) =>
                results[j] =
                  Slot(parse_content(net.tasks[j].content[1], filings[j]))
  /\ pc \in {"done", "not_found"} =>
       holdings_of(results) =
         Flatten([i \in DOMAIN net.tasks |->
                    IF net.tasks[i].content = Absent THEN <<>>
                    ELSE parse_content(net.tasks[i].content[1], filings[i])])

Succeeded(r) == r.kind = "response" /\ r.status = 200

(* What fetch_filing_details must have returned for filing i, read off     *)
(* the answers its requests got: the parsed body of the direct answer      *)
(* when that succeeded; otherwise nothing when the index page failed or    *)
(* held no .txt link or the retry failed, and the parsed body of the       *)
(* retry's answer when the retry succeeded.                                *)
RetrievedFrom(i, request, n) ==
  LET log == net.tasks[i].requests
  IN  /\ Len(log) = n
      /\ log[n].request = request
      /\ net.tasks[i].content = Some(log[n].response.body)
      /\ results[i] = Slot(parse_content(log[n].response.body, filings[i]))

NothingRetrieved(i, n) ==
  /\ Len(net.tasks[i].requests) = n
  /\ net.tasks[i].content = Absent
  /\ results[i] = Slot(<<>>)

(* C13. A filing's task returns no holdings whenever all its retrieval     *)
(* attempts fail (the direct fetch is answered with a non-success status   *)
(* and then the index page is answered with a non-success status, or       *)
(* holds no .txt link, or the retry is answered with a non-success         *)
(* status); otherwise the body retrieved by the direct fetch, or by the    *)
(* retry when the direct fetch failed, is what the parser is given.        *)
C13_RetrievalFallback ==
  \A i \in DOMAIN net.tasks :
    Returned(i) =>
      LET log == net.tasks[i].requests
      IN  /\ log[1].request = "direct"
          /\ IF Succeeded(log[1].response) THEN RetrievedFrom(i, "direct", 1)
             ELSE /\ Len(log) >= 2
                  /\ log[2].request = "index"
                  /\ IF ~Succeeded(log[2].response) THEN NothingRetrieved(i, 2)
                     ELSE IF log[2].response.body.href = Absent
                          THEN NothingRetrieved(i, 2)
                     ELSE /\ Len(log) = 3
                          /\ IF ~Succeeded(log[3].response)
                             THEN NothingRetrieved(i, 3)
                             ELSE RetrievedFrom(i, "retry", 3)

(* One batch in which a filing is retrieved by the retry, one gives up on  *)
(* an index page without a link and one on a failed retry.                 *)
C13_Witness ==
  /\ pc = "done"
  /\ \E i \in DOMAIN net.tasks :
       /\ Returned(i) /\ Len(net.tasks[i].requests) = 3
       /\ Succeeded(LastResponse(i))
       /\ results[i].holdings # <<>>
  /\ \E i \in DOMAIN net.tasks :
       /\ Returned(i) /\ Len(net.tasks[i].requests) = 2
       /\ Succeeded(LastResponse(i))
       /\ results[i].holdings = <<>>
  /\ \E i \in DOMAIN net.tasks :
       /\ Returned(i) /\ Len(net.tasks[i].requests) = 3
       /\ ~Succeeded(LastResponse(i))
       /\ results[i].holdings = <<>>

(* C14 as stated. When the request for the submission index raises a       *)
(* transport error, and when it is answered with a non-success status,     *)
(* fetch_filings returns the empty list and the pipeline goes on with no   *)
(* filings instead of failing.                                             *)
C14_AsStated ==
  (net.feed.kind = "error" \/ (LocatorAnswered /\ net.feed.status # 200)) =>
    /\ pc # "raised"
    /\ filings = <<>>
    /\ results = <<>>

(* Rows of the answered recent table whose form is the target form, and    *)
(* the position of such a row among them.                                  *)
MatchingRows ==
  {n \in DOMAIN net.feed.body : net.feed.body[n].form = "13F-HR"}

RankOf(n) == Cardinality({m \in MatchingRows : m <= n})

(* C15. On a successful answer fetch_filings returns only rows of form     *)
(* 13F-HR, at most five, namely the first five such rows of the recent     *)
(* table in table order, each with its accession number, filing date and   *)
(* period of report, the period being reportDate, or periodOfReport when   *)
(* reportDate is empty.                                                    *)
C15_LocatorResult ==
  (LocatorAnswered /\ net.feed.status = 200) =>
    /\ Len(filings) = Min2(5, Cardinality(MatchingRows))
    /\ \A n \in MatchingRows :
         RankOf(n) <= 5 =>
           LET row == net.feed.body[n]
           IN  filings[RankOf(n)] =
                 [accession_number |-> row.accessionNumber,
                  filing_date |-> row.filingDate,
                  period_of_report |->
                    IF row.reportDate # Absent THEN row.reportDate[1]
                    ELSE row.periodOfReport[1]]

(* More than five matching rows with other forms between them, and one of  *)
(* the five returned took its period from periodOfReport.                  *)
C15_Witness ==
  /\ LocatorAnswered /\ net.feed.status = 200
  /\ Cardinality(MatchingRows) > 5
  /\ Len(filings) = 5
  /\ \E n \in DOMAIN net.feed.body, m \in MatchingRows :
       n < m /\ n \notin MatchingRows /\ RankOf(m) <= 5
  /\ \E n \in MatchingRows :
       /\ RankOf(n) <= 5
       /\ net.feed.body[n].reportDate = Absent
       /\ filings[RankOf(n)].period_of_report = net.feed.body[n].periodOfReport[1]

FirstOr(texts, default) == IF texts = <<>> THEN default ELSE texts[1]

(* C16 as stated. Every position element of a structured information      *)
(* table yields one holding, a missing issuer name or security identifier  *)
(* read as the empty string and a missing reported value or share count    *)
(* as zero; a missing field removes no holding of the filing.              *)
C16_AsStated ==
  \A i \in DOMAIN net.tasks :
    (/\ Returned(i)
     /\ net.tasks[i].content # Absent
     /\ net.tasks[i].content[1].info_table = "xml") =>
      LET tables == net.tasks[i].content[1].tables
          holdings == results[i].holdings
      IN  /\ Len(holdings) = Len(tables)
          /\ \A k \in DOMAIN tables :
               /\ holdings[k].name_of_issuer = FirstOr(tables[k].nameOfIssuer, "")
               /\ holdings[k].cusip = FirstOr(tables[k].cusip, "")
               /\ holdings[k].value = float(FirstOr(tables[k].value, "0")) * 1000
               /\ holdings[k].sshprnamt = float(FirstOr(tables[k].sshPrnamt, "0"))

(* The legacy table a task handed to the text parser, the position of its  *)
(* header line, and the lines after the separator that are non-blank and   *)
(* have at least as many tokens as the header line has words.              *)
TextLines(i) == net.tasks[i].content[1].lines

HeaderLine(i) ==
  CHOOSE h \in DOMAIN TextLines(i) :
    /\ is_header_line(TextLines(i)[h])
    /\ \A k \in 1..(h - 1) : ~is_header_line(TextLines(i)[k])

LongEnough(i) ==
  {k \in (HeaderLine(i) + 2)..Len(TextLines(i)) :
     /\ TextLines(i)[k] # <<>>
     /\ Len(TextLines(i)[k]) >= Len(TextLines(i)[HeaderLine(i)])}

TooShort(i) ==
  {k \in (HeaderLine(i) + 2)..Len(TextLines(i)) :
     /\ TextLines(i)[k] # <<>>
     /\ Len(TextLines(i)[k]) < Len(TextLines(i)[HeaderLine(i)])}

(* The token of line k under the header word.                              *)
TokenUnder(i, k, word) ==
  LET headers == TextLines(i)[HeaderLine(i)]
  IN  TextLines(i)[k][CHOOSE j \in DOMAIN headers : headers[j] = word]

NumericRow(i, k) ==
  is_numeric(TokenUnder(i, k, "VALUE")) /\ is_numeric(TokenUnder(i, k, "SHARES"))

ParsedAsText(i) ==
  /\ net.tasks[i].content # Absent
  /\ net.tasks[i].content[1].info_table = "text"

(* The holdings of task i are the long-enough lines, one each, in order.   *)
OnePerLongLine(i) ==
  /\ Len(results[i].holdings) = Cardinality(LongEnough(i))
  /\ \A k \in LongEnough(i) :
       LET n == Cardinality({m \in LongEnough(i) : m <= k})
       IN  /\ results[i].holdings[n].name_of_issuer = TextLines(i)[k][1]
           /\ results[i].holdings[n].value = float(TokenUnder(i, k, "VALUE")) * 1000
           /\ results[i].holdings[n].sshprnamt = float(TokenUnder(i, k, "SHARES"))

EveryFilingFailed ==
  /\ pc \in {"done", "not_found"}
  /\ \A i \in DOMAIN net.tasks : Returned(i) /\ FetchFailed(i)

WithoutTable(i) ==
  /\ net.tasks[i].content # Absent
  /\ net.tasks[i].content[1].info_table = "none"

(* C19. A filing whose document holds no information-table section yields *)
(* no holdings and no error: its task returns the empty list, and every    *)
(* other filing of the batch keeps the holdings parsed from its own        *)
(* document, which are exactly what the request goes on to analyse.        *)
C19_MissingSection ==
  \A i \in DOMAIN net.tasks :
    WithoutTable(i) =>
      /\ Returned(i)
      /\ results[i] = Slot(<<>>)
      /\ \A j \in DOMAIN net.tasks :
           (j # i /\ Returned(j) /\ net.tasks[j].content # Absent) =>
             results[j] =
               Slot(parse_content(net.tasks[j].content[1], filings[j]))
      /\ pc = "done" =>
           df = normalize(Flatten([j \in DOMAIN net.tasks |->
                                     IF j = i THEN <<>>
                                     ELSE results[j].holdings]))

(* A batch of three in which one filing has no information table and the   *)
(* other two contribute holdings to the analysis.                          *)
C19_Witness ==
  /\ pc = "done"
  /\ \E i \in DOMAIN net.tasks :
       /\ WithoutTable(i)
       /\ results[i].holdings = <<>>
       /\ \A j \in DOMAIN net.tasks : j # i => results[j].holdings # <<>>
  /\ Len(filings) = 3
  /\ Len(df) >= 2

-----------------------------------------------------------------------------
(* Vocabulary of the sanitisation property: the fields of an output record *)
(* that hold a number are all its fields but the issuer name, the quarter  *)
(* label, the accession number and the status.                             *)

NumericFields(row) ==
  DOMAIN row \ {"name_of_issuer", "quarter", "accession_number", "status"}

Analysed == pc = "analysed"

CellsOf(rows) ==
  UNION {{rows[k][col] : col \in NumericFields(rows[k])} : k \in DOMAIN rows}

OutputCells ==
  CellsOf(analysis.top_holdings) \cup CellsOf(analysis.changes)
    \cup CellsOf(analysis.all_holdings)

(* The frames as computed, before the replacement.                         *)
Computed ==
  LET frame == filter_quarters(normalize_ieee(df))
  IN  [top_holdings |-> top_holdings_ieee(frame),
       changes |-> changes_ieee(frame),
       all_holdings |-> all_holdings_ieee(frame)]

(* C20. No numeric field of any record of top_holdings, changes or         *)
(* all_holdings is an infinity or NaN: each computed value that is not     *)
(* finite is None in the output, and each finite one is unchanged.         *)
C20_NoNonFiniteOutput ==
  Analysed =>
    /\ \A rows \in {analysis.top_holdings, analysis.changes, analysis.all_holdings} :
         \A k \in DOMAIN rows : \A col \in NumericFields(rows[k]) :
           rows[k][col].kind \in {"finite", "none"}
    /\ \A view \in {"top_holdings", "changes", "all_holdings"} :
         /\ Len(analysis[view]) = Len(Computed[view])
         /\ \A k \in DOMAIN Computed[view] :
              \A col \in NumericFields(Computed[view][k]) :
                analysis[view][k][col] =
                  IF Computed[view][k][col].kind = "finite"
                  THEN Computed[view][k][col]
                  ELSE None

(* An infinite reported value: the summed value_fixed of top_holdings and  *)
(* an infinite change from a finite previous value come out as None, a     *)
(* NaN of shift(1) comes out as None, and finite fields are kept.          *)
C20_Witness ==
  /\ Analysed
  /\ \E i \in DOMAIN df : df[i].value.kind = "inf"
  /\ \E k \in DOMAIN Computed.top_holdings :
       /\ Computed.top_holdings[k].value_fixed.kind = "inf"
       /\ analysis.top_holdings[k].value_fixed = None
  /\ \E k \in DOMAIN Computed.all_holdings :
       /\ Computed.all_holdings[k].prev_value.kind = "finite"
       /\ Computed.all_holdings[k].value_change.kind = "inf"
       /\ analysis.all_holdings[k].value_change = None
  /\ \E k \in DOMAIN Computed.changes :
       /\ isna(Computed.changes[k].prev_value)
       /\ analysis.changes[k].prev_value = None
  /\ \E cell \in OutputCells : cell.kind = "finite" /\ cell.num # 0

-----------------------------------------------------------------------------
(* The fetch of a filing is outstanding while its task still has a         *)
(* request to make or to be answered.                                      *)
Outstanding(i) == net.tasks[i].stage \in {"direct", "index", "retry"}

Parsed(i) == net.tasks[i].content # Absent

(* C21 as stated. No document of the batch has been parsed while the       *)
(* fetch of another filing of the batch is still outstanding.              *)
C21_AsStated ==
  \A i, j \in DOMAIN net.tasks : Parsed(i) => ~Outstanding(j)

(* C21, amended. The analytics run only after every task of the batch has  *)
(* returned. Parsing does not wait: each task parses its own document in   *)
(* the step in which the document arrives, whatever the state of the       *)
(* other fetches, and has returned (or raised) by the end of that step.    *)
C21_ParseInsideTask ==
  /\ pc \in {"done", "not_found"} => \A i \in DOMAIN net.tasks : Returned(i)
  /\ df # <<>> => pc = "done"
  /\ \A i \in DOMAIN net.tasks :
       Parsed(i) =>
         \/ Raised(i)
         \/ /\ Returned(i)
            /\ results[i] = Slot(parse_content(net.tasks[i].content[1], filings[i]))

(* One filing parsed into holdings while the others are still waiting for  *)
(* their direct fetch and for their index page.                            *)
C21_Witness ==
  \E i, j, k \in DOMAIN net.tasks :
    /\ Parsed(i) /\ results[i].holdings # <<>>
    /\ net.tasks[j].stage = "direct"
    /\ net.tasks[k].stage = "index"
    /\ pc = "gather"

-----------------------------------------------------------------------------
(* The link the index page of filing i gave, and the address it points     *)
(* to: the host followed by the whole path of the href.                    *)
LinkFound(i) == net.tasks[i].requests[2].response.body.href[1]

LinkedAddress(link) == "https://www.sec.gov" \o link.dir \o link.name

Retried(i) == net.tasks[i].retry_url # Absent

(* C22 as stated. When the direct fetch failed and the index page held a   *)
(* link to a .txt artifact, the retry is requested at the path of that     *)
(* link: the host followed by the full /Archives/edgar/data/... path.      *)
C22_AsStated ==
  \A i \in DOMAIN net.tasks :
    Retried(i) => net.tasks[i].retry_url[1] = LinkedAddress(LinkFound(i))

-----------------------------------------------------------------------------
RequestOrder == <<"direct", "index", "retry">>

(* The requests of filing i answered so far, and the one it waits for.     *)
Answered(i) == net.tasks[i].requests

Awaited(i) ==
  IF Outstanding(i) THEN <<net.tasks[i].stage>> ELSE <<>>

Issued(i) == [k \in DOMAIN Answered(i) |-> Answered(i)[k].request] \o Awaited(i)

NonSuccess(r) == r.kind = "response" /\ r.status # 200

(* C23. The requests of one filing are a prefix of direct, index, retry:   *)
(* at most three, none repeated; the index page is requested only after    *)
(* the direct fetch answered non-success and the retry only after the      *)
(* index page answered success with a .txt link in it.                     *)
C23_RequestOrder ==
  \A i \in DOMAIN net.tasks :
    /\ Len(Issued(i)) <= Len(RequestOrder)
    /\ Issued(i) = SubSeq(RequestOrder, 1, Len(Issued(i)))
    /\ Len(Issued(i)) >= 2 => NonSuccess(Answered(i)[1].response)
    /\ Len(Issued(i)) = 3 =>
         /\ Succeeded(Answered(i)[2].response)
         /\ Answered(i)[2].response.body.href # Absent
    /\ ~Outstanding(i) => Len(Issued(i)) >= 1

(* A filing that needed all three requests, its retry answered with        *)
(* non-success, and a sibling that needed one.                             *)
C23_Witness ==
  \E i, j \in DOMAIN net.tasks :
    /\ Returned(i) /\ Len(Answered(i)) = 3 /\ NonSuccess(Answered(i)[3].response)
    /\ Returned(j) /\ Len(Answered(j)) = 1

-----------------------------------------------------------------------------
(* The last request of task i ended in a transport-level error.            *)
TransportFailed(i) ==
  /\ Answered(i) # <<>>
  /\ LastResponse(i).kind = "error"

(* The document of task i is a legacy table with a data line that has      *)
(* enough tokens but a non-numeric token under VALUE or SHARES.            *)
NonNumericRow(i) ==
  /\ ParsedAsText(i)
  /\ \E k \in LongEnough(i) : ~NumericRow(i, k)

(* C24. A transport error on a request of a task, or a legacy row with     *)
(* enough tokens and a non-numeric VALUE or SHARES, makes the task raise;  *)
(* when a task has raised, get_holdings has raised too: no holdings reach  *)
(* the analytics, those of the siblings that returned included, and the    *)
(* request ends in an error that is not the 404.                           *)
C24_TaskFailureFailsBatch ==
  /\ \A i \in DOMAIN net.tasks :
       /\ (TransportFailed(i) \/ NonNumericRow(i)) => Raised(i)
       /\ Raised(i) =>
            /\ pc = "raised"
            /\ df = <<>>
            /\ analysis = EmptyResult
  /\ pc = "raised" => df = <<>> /\ analysis = EmptyResult

(* A legacy row with a non-numeric VALUE raised in one task after a        *)
(* sibling had returned holdings; the sibling's holdings are lost.         *)
C24_Witness ==
  \E i, j \in DOMAIN net.tasks :
    /\ NonNumericRow(i) /\ Raised(i)
    /\ Returned(j) /\ results[j].holdings # <<>>
    /\ pc = "raised"

-----------------------------------------------------------------------------
ParsedAsXml(i) ==
  /\ net.tasks[i].content # Absent
  /\ net.tasks[i].content[1].info_table = "xml"

Elements(i) == net.tasks[i].content[1].tables

(* A position element that lacks one of the four extracted fields.         *)
LacksField(table) ==
  <<>> \in {table.nameOfIssuer, table.cusip, table.value, table.sshPrnamt}

(* C25. The structured-markup parser is all-or-nothing per filing: when    *)
(* one position element lacks one of the four fields the filing yields no  *)
(* holdings, whatever the elements before it held; the list returned is    *)
(* never a proper part of the elements, and when no element lacks a field  *)
(* (and the numbers are numerals) it has one holding per element, in       *)
(* order.                                                                  *)
C25_AllOrNothing ==
  \A i \in DOMAIN net.tasks :
    ParsedAsXml(i) =>
      /\ Returned(i)
      /\ Len(results[i].holdings) \in {0, Len(Elements(i))}
      /\ (\E k \in DOMAIN Elements(i) : LacksField(Elements(i)[k])) =>
           results[i].holdings = <<>>
      /\ (\A k \in DOMAIN Elements(i) :
            /\ ~LacksField(Elements(i)[k])
            /\ is_numeric(Elements(i)[k].value[1])
            /\ is_numeric(Elements(i)[k].sshPrnamt[1])) =>
           /\ Len(results[i].holdings) = Len(Elements(i))
           /\ \A k \in DOMAIN Elements(i) :
                results[i].holdings[k].name_of_issuer = Elements(i)[k].nameOfIssuer[1]

(* A filing whose first element is complete and whose second lacks its     *)
(* value: nothing is returned for it.                                      *)
C25_Witness ==
  \E i \in DOMAIN net.tasks :
    /\ ParsedAsXml(i) /\ Returned(i)
    /\ Len(Elements(i)) = 2
    /\ ~LacksField(Elements(i)[1])
    /\ LacksField(Elements(i)[2])
    /\ results[i].holdings = <<>>

-----------------------------------------------------------------------------
(* The quarters of the holdings handed to the analytics, and the quarters  *)
(* left in the quarter-filtered dataset, read off its per-issuer,          *)
(* per-quarter rows.                                                       *)
QuartersFetched == {df[k].quarter : k \in DOMAIN df}

QuartersKept == {analysis.all_holdings[k].quarter : k \in DOMAIN analysis.all_holdings}

(* The n most recent quarters of a set.                                    *)
MostRecent(quarters, n) ==
  {q \in quarters : Cardinality({p \in quarters : p > q}) < n}

(* C26. When the data holds no 2024Q1 the anchor still takes one of the    *)
(* four places: the filtered dataset holds the 3 most recent quarters of   *)
(* the data (all of them if fewer), never 4. For any non-empty data the    *)
(* filtered dataset is non-empty and its latest quarter is the latest      *)
(* quarter of the data.                                                    *)
C26_AnchorOccupiesSlot ==
  Done =>
    /\ AnchorQuarter \notin QuartersFetched =>
         /\ QuartersKept = MostRecent(QuartersFetched, MaxQuarters - 1)
         /\ Cardinality(QuartersKept) < MaxQuarters
    /\ QuartersKept # {}
    /\ \E q \in QuartersKept : \A p \in QuartersFetched : p <= q

(* Five distinct quarters without 2024Q1 in the data, three of them kept.  *)
C26_Witness ==
  /\ Done
  /\ AnchorQuarter \notin QuartersFetched
  /\ Cardinality(QuartersFetched) = 5
  /\ Cardinality(QuartersKept) = 3

-----------------------------------------------------------------------------
(* What the task of filing i returned, computed from the document it       *)
(* retrieved alone.                                                        *)
HoldingsOfFiling(i) ==
  IF net.tasks[i].content = Absent THEN <<>>
  ELSE parse_content(net.tasks[i].content[1], filings[i])

InFilingOrder == Flatten([i \in DOMAIN filings |-> HoldingsOfFiling(i)])

(* The filings that contribute a holding of the issuer in the quarter,     *)
(* and the filings that contribute to the quarter-filtered dataset.        *)
Contributors(name, quarter) ==
  {i \in DOMAIN filings :
     /\ Quarter(filings[i].period_of_report) = quarter
     /\ \E k \in DOMAIN results[i].holdings :
          results[i].holdings[k].name_of_issuer = name}

KeptFilings ==
  {i \in DOMAIN filings :
     /\ results[i].holdings # <<>>
     /\ Quarter(filings[i].period_of_report) \in QuartersKept}

First(S) == CHOOSE i \in S : \A j \in S : i <= j

(* The order in which the tasks returned is not the order of the filings.  *)
OutOfOrder == \E k \in DOMAIN net.order : net.order[k] # k

(* C27. Whatever the order in which the fetches complete, the flat list    *)
(* is the concatenation of the per-filing lists in the Locator's filing    *)
(* order, so the analytics result is a function of the filings and their   *)
(* documents alone: manager_name is that of the first filing, in filing    *)
(* order, with a holding in the filtered dataset, and the accession_id of  *)
(* each aggregate is that of the first filing, in filing order, that       *)
(* contributes to it.                                                      *)
C27_OrderIndependent ==
  Done =>
    /\ df = normalize(InFilingOrder)
    /\ analysis = analyze_holdings(InFilingOrder)
    /\ Column(df, "accession_number") =
         Flatten([i \in DOMAIN filings |->
                    [k \in DOMAIN results[i].holdings |-> filings[i].accession_number]])
    /\ analysis.manager_name =
         title(net.tasks[First(KeptFilings)].content[1].manager_name)
    /\ \A k \in DOMAIN analysis.all_holdings :
         LET row == analysis.all_holdings[k]
         IN  row.accession_number =
               filings[First(Contributors(row.name_of_issuer, row.quarter))].accession_number

(* Two filings of one quarter holding the same issuer under different      *)
(* manager names, the later filing of the list returned before the         *)
(* earlier one, and the first filing of the list returned last.            *)
C27_Witness ==
  /\ Done
  /\ Len(filings) = 3
  /\ net.order = <<3, 2, 1>>
  /\ Parsed(2) /\ Parsed(3)
  /\ \E name \in Range(IssuerNames) : {2, 3} \subseteq Contributors(name, Quarter(filings[2].period_of_report))
  /\ net.tasks[2].content[1].manager_name # net.tasks[3].content[1].manager_name
  /\ results[1].holdings = <<>>

-----------------------------------------------------------------------------
(* The legacy table parsed on its own: its header line, the data lines     *)
(* that are not blank and have at least as many tokens as the header has   *)
(* words, and the holding each of them gave.                               *)
TextParsed == pc = "parsed" /\ DOMAIN fx = {"lines"}

HeaderAt ==
  CHOOSE h \in DOMAIN fx.lines :
    /\ is_header_line(fx.lines[h])
    /\ \A k \in 1..(h - 1) : ~is_header_line(fx.lines[k])

HeaderWords == fx.lines[HeaderAt]

RowsKept ==
  {k \in (HeaderAt + 2)..Len(fx.lines) :
     /\ fx.lines[k] # <<>>
     /\ Len(fx.lines[k]) >= Len(HeaderWords)}

HoldingOfLine(k) ==
  results[1].holdings[Cardinality({m \in RowsKept : m <= k})]

(* The positions of a word in the header, and the token of line k paired   *)
(* with it: the token at the last of these positions, or the default.      *)
PositionsOf(word) == {j \in DOMAIN HeaderWords : HeaderWords[j] = word}

TokenPaired(k, word, default) ==
  IF PositionsOf(word) = {} THEN default
  ELSE fx.lines[k][CHOOSE j \in PositionsOf(word) : \A m \in PositionsOf(word) : m <= j]

(* C28 as stated. Every kept data line gives a holding whose               *)
(* name_of_issuer is the first token of the line and whose identifier,     *)
(* value and share count are the tokens at the positions of CUSIP, VALUE   *)
(* and SHARES in the header.                                               *)
C28_AsStated ==
  TextParsed =>
    /\ Len(results[1].holdings) = Cardinality(RowsKept)
    /\ \A k \in RowsKept :
         /\ HoldingOfLine(k).name_of_issuer = fx.lines[k][1]
         /\ HoldingOfLine(k).cusip = TokenPaired(k, "CUSIP", "")
         /\ HoldingOfLine(k).value = float(TokenPaired(k, "VALUE", "0")) * 1000
         /\ HoldingOfLine(k).sshprnamt = float(TokenPaired(k, "SHARES", "0"))

(* C28, amended. The k-th header word is paired with the k-th token of     *)
(* the row. name_of_issuer is the token paired with the upper-case word    *)
(* NAME of the header, the last one if the header holds it more than       *)
(* once, and the empty string if the header holds no such word; it is the  *)
(* first token of the row exactly when NAME is the first word of the       *)
(* header and occurs once. Identifier, value and share count are the       *)
(* tokens paired with CUSIP, VALUE and SHARES, or "", 0 and 0. Tokens      *)
(* beyond the header count change nothing, and the line after the header   *)
(* line never yields a holding.                                            *)
C28_HeaderZip ==
  TextParsed =>
    /\ Len(results[1].holdings) = Cardinality(RowsKept)
    /\ HeaderAt + 1 \notin RowsKept
    /\ \A k \in RowsKept :
         /\ HoldingOfLine(k).name_of_issuer = TokenPaired(k, "NAME", "")
         /\ HoldingOfLine(k).cusip = TokenPaired(k, "CUSIP", "")
         /\ HoldingOfLine(k).value = float(TokenPaired(k, "VALUE", "0")) * 1000
         /\ HoldingOfLine(k).sshprnamt = float(TokenPaired(k, "SHARES", "0"))
         /\ PositionsOf("NAME") = {1} => HoldingOfLine(k).name_of_issuer = fx.lines[k][1]
    /\ \A k, m \in RowsKept :
         SubSeq(fx.lines[k], 1, Len(HeaderWords)) = SubSeq(fx.lines[m], 1, Len(HeaderWords))
           => HoldingOfLine(k) = HoldingOfLine(m)

(* A header whose second word is NAME, followed by a line that looks like  *)
(* a data row, then a row whose issuer name is its second token; and two   *)
(* rows that differ only beyond the header count.                          *)
C28_Witness ==
  /\ TextParsed
  /\ PositionsOf("NAME") = {2}
  /\ Len(fx.lines[HeaderAt + 1]) >= Len(HeaderWords)
  /\ \E k \in RowsKept :
       /\ HoldingOfLine(k).name_of_issuer = fx.lines[k][2]
       /\ HoldingOfLine(k).name_of_issuer # fx.lines[k][1]
  /\ \E k, m \in RowsKept :
       /\ Len(fx.lines[k]) > Len(HeaderWords)
       /\ Len(fx.lines[m]) = Len(HeaderWords)
       /\ HoldingOfLine(k) = HoldingOfLine(m)

====
